---- MODULE Spec2Model ----
(***************************************************************************)
(* A model of the repository summarizer (src/src/repo_summarizer): the     *)
(* token-budget allocator, the security sentinel, the file scorer, the     *)
(* file filter and the summarize-repo use case that sequences them.        *)
(*                                                                         *)
(* Text is a sequence of one-character strings ("\n" is the line feed and  *)
(* "U2026" stands for the horizontal ellipsis U+2026, "U0060" for the      *)
(* grave accent U+0060).                                                   *)
(***************************************************************************)
EXTENDS Integers, Sequences, FiniteSets, TLC

VARIABLES
    call,           \* the operation under check and its arguments
    ret,            \* <<>> before the operation returned, <<value>> after
    pc,             \* where execute stands: the await it is suspended at
    raised,         \* the exception that left execute, "" if none
    tree,           \* <<>>, or <<the list fetch_tree returned>>
    languages,      \* the items fetch_languages returned
    files_to_fetch, \* _select_files_to_fetch's list of (node, category)
    fetch_state,    \* per selected file: "pending", "in_flight", "ok", "failed"
    fetch_calls,    \* the paths fetch_file_content was called with, in order
    repo_files,     \* what _fetch_files returned
    scored,         \* what score_files returned
    raw_contents,   \* the slot texts of _build_raw_contents
    budgeted,       \* <<>>, or <<the first allocation>>
    mode,           \* "", "single" or "multi"
    top_sources,    \* multi-pass: the files to summarise one by one
    attempted,      \* multi-pass: the number of secondary calls that ended
    file_summaries, \* multi-pass: the summaries collected
    pass2_budget,   \* <<>>, or <<the second allocation>>
    llm_calls,      \* the (system, user) prompts llm.complete was called with
    encoder,        \* token_budget._encoder: "None", or the encoder
    encodings,      \* the number of times tiktoken.get_encoding was invoked
    threads         \* per thread inside _get_encoder: its line and its locals

pvars == <<pc, raised, tree, languages, files_to_fetch, fetch_state, fetch_calls,
           repo_files, scored, raw_contents, budgeted, mode, top_sources,
           attempted, file_summaries, pass2_budget, llm_calls>>

evars == <<encoder, encodings, threads>>

vars == <<call, ret, pvars, evars>>

\* the module was imported and no thread has called _get_encoder
NoThreads == encoder = "None" /\ encodings = 0 /\ threads = <<>>

\* execute stands at p and has done nothing yet
PipelineFresh(p) ==
    /\ pc = p /\ raised = ""
    /\ tree = <<>> /\ languages = <<>> /\ files_to_fetch = <<>>
    /\ fetch_state = <<>> /\ fetch_calls = <<>> /\ repo_files = <<>>
    /\ scored = <<>> /\ raw_contents = <<>> /\ budgeted = <<>>
    /\ mode = "" /\ top_sources = <<>> /\ attempted = 0
    /\ file_summaries = <<>> /\ pass2_budget = <<>> /\ llm_calls = <<>>

\* the use case is not running (the checks of the pure functions)
PipelineIdle == PipelineFresh("idle")

(***************************************************************************)
(* Generic helpers                                                         *)
(***************************************************************************)
Min(a, b) == IF a <= b THEN a ELSE b

Max(a, b) == IF a >= b THEN a ELSE b

SetMax(S) == CHOOSE x \in S : \A y \in S : y <= x

RECURSIVE Repeat(_, _)
Repeat(s, k) == IF k <= 0 THEN <<>> ELSE s \o Repeat(s, k - 1)

\* the sequences of seqs[lo..hi], one after the other (by halves)
RECURSIVE ConcatRange(_, _, _)
ConcatRange(seqs, lo, hi) ==
    IF lo > hi THEN <<>>
    ELSE IF lo = hi THEN seqs[lo]
    ELSE ConcatRange(seqs, lo, (lo + hi) \div 2)
         \o ConcatRange(seqs, (lo + hi) \div 2 + 1, hi)

Concat(seqs) == ConcatRange(seqs, 1, Len(seqs))

\* the members of S within lo..hi in ascending order (by halves)
RECURSIVE AscendingRange(_, _, _)
AscendingRange(S, lo, hi) ==
    IF lo > hi THEN <<>>
    ELSE IF lo = hi THEN (IF lo \in S THEN <<lo>> ELSE <<>>)
    ELSE AscendingRange(S, lo, (lo + hi) \div 2)
         \o AscendingRange(S, (lo + hi) \div 2 + 1, hi)

RECURSIVE SumUsed(_)
SumUsed(slots) ==
    IF slots = <<>> THEN 0 ELSE Head(slots).used_tokens + SumUsed(Tail(slots))

\* s[i:] starts with p (i is a 1-based position)
StartsWithAt(s, i, p) ==
    /\ i + Len(p) - 1 <= Len(s)
    /\ \A k \in 1..Len(p) : s[i + k - 1] = p[k]

\* str.rfind(ch) as a 0-based index, -1 when ch does not occur
RFind(s, ch) ==
    LET hits == {i \in 1..Len(s) : s[i] = ch}
    IN  IF hits = {} THEN -1 ELSE SetMax(hits) - 1

(***************************************************************************)
(* token_budget.py: the tokenizer                                          *)
(*                                                                         *)
(* tiktoken's cl100k_base is a byte-pair encoder.  The model is a greedy   *)
(* longest-match encoder over a fragment of its vocabulary: the merged     *)
(* tokens below, and every other character a token of its own.  Encoding   *)
(* is not compositional: a token may form across the seam of two texts.    *)
(***************************************************************************)
VOCAB ==
    { <<"a", "a">>,
      <<"\n", "\n">>,
      <<" ", "t", "r", "u", "n", "c", "a", "t", "e", "d">>,
      <<" ", "t", "o">>,
      <<" ", "f", "i", "t">>,
      <<" ", "t", "o", "k", "e", "n">>,
      <<" ", "b", "u", "d", "g", "e", "t">> }

TokenLenAt(s, i) ==
    LET fits == {Len(v) : v \in {w \in VOCAB : StartsWithAt(s, i, w)}}
    IN  IF fits = {} THEN 1 ELSE SetMax(fits)

\* The positions the encoder passes through from the start of the text: the
\* closure of {1} under "skip the token that starts here".  `jump` is that
\* step applied 2^k times, so that a round doubles the part of the closure
\* already found.  Appending the empty sequence leaves a table as it is and
\* has TLC hold it as a tuple, not as a rule it evaluates at every lookup.
RECURSIVE Orbit(_, _)
Orbit(jump, reach) ==
    LET more == reach \cup {jump[i] : i \in reach}
    IN  IF more = reach THEN reach
        ELSE Orbit([i \in DOMAIN jump |-> jump[jump[i]]] \o <<>>, more)

\* the positions where a token starts
TokenStarts(s) ==
    LET n    == Len(s)
        jump == [i \in 1..(n + 1) |-> IF i > n THEN n + 1 ELSE i + TokenLenAt(s, i)]
    IN  Orbit(jump \o <<>>, {1}) \ {n + 1}

\* _get_encoder().encode(text)
Encode(text) ==
    LET starts == AscendingRange(TokenStarts(text), 1, Len(text))
    IN  [k \in 1..Len(starts) |->
            SubSeq(text, starts[k],
                   IF k = Len(starts) THEN Len(text) ELSE starts[k + 1] - 1)]

\* _get_encoder().decode(tokens)
Decode(tokens) == Concat(tokens)

count_tokens(text) == Cardinality(TokenStarts(text))

TRUNCATION_MARKER ==
    <<"\n", "[", "U2026", " ", "t", "r", "u", "n", "c", "a", "t", "e", "d",
      " ", "t", "o", " ", "f", "i", "t", " ", "t", "o", "k", "e", "n",
      " ", "b", "u", "d", "g", "e", "t", "]">>

\* the cut at the last line feed of the decoded prefix, if it is in the
\* second half
RolloverAt(truncated, last_nl) ==
    IF last_nl > Len(truncated) \div 2
    THEN SubSeq(truncated, 1, last_nl + 1)
    ELSE truncated

Rollover(truncated) == RolloverAt(truncated, RFind(truncated, "\n"))

\* truncate_to_budget after tokens = _get_encoder().encode(text)
TruncateTokens(text, max_tokens, tokens) ==
    IF Len(tokens) <= max_tokens THEN text
    ELSE Rollover(Decode(SubSeq(tokens, 1, Min(max_tokens, Len(tokens)))))
         \o TRUNCATION_MARKER

truncate_to_budget(text, max_tokens) ==
    TruncateTokens(text, max_tokens, Encode(text))

(***************************************************************************)
(* token_budget.py: allocate                                               *)
(***************************************************************************)
\* (slot name, proportion in percent)
SLOT_PROPORTIONS ==
    << [name |-> "languages", pct |-> 2],
       [name |-> "readme",    pct |-> 28],
       [name |-> "config",    pct |-> 15],
       [name |-> "tree",      pct |-> 10],
       [name |-> "source",    pct |-> 40] >>

SlotNames == {SLOT_PROPORTIONS[i].name : i \in 1..Len(SLOT_PROPORTIONS)}

\* int(x * p) for x >= 0 and p = pct / 100
Share(x, pct) == (x * pct) \div 100

\* contents.get(slot_name, "")
GetText(contents, key) ==
    IF key \in DOMAIN contents THEN contents[key] ELSE <<>>

\* the cap of a slot, were nothing to roll over into it
EffectiveMaxOwnShare(slot_max, remaining) == Max(Min(slot_max, remaining), 0)

EffectiveMax(slot_max, remaining) ==
    Max(Min(slot_max + (remaining - slot_max), remaining), 0)

BudgetSlot(name, max_tokens, content, used_tokens) ==
    [name |-> name, max_tokens |-> max_tokens,
     content |-> content, used_tokens |-> used_tokens]

\* the slot of a text that did not fit: used = count_tokens(fitted_text)
FittedSlot(slot_name, effective_max, fitted_text) ==
    BudgetSlot(slot_name, effective_max, fitted_text, count_tokens(fitted_text))

\* the slot of a non-empty text of actual_tokens tokens
FitSlot(slot_name, raw_text, effective_max, actual_tokens) ==
    IF actual_tokens <= effective_max
    THEN BudgetSlot(slot_name, effective_max, raw_text, actual_tokens)
    ELSE FittedSlot(slot_name, effective_max,
                    truncate_to_budget(raw_text, effective_max))

\* one turn of the loop of allocate, were an empty slot charged its cap
SlotForCharged(slot_name, raw_text, effective_max) ==
    IF raw_text = <<>>
    THEN BudgetSlot(slot_name, effective_max, <<>>, effective_max)
    ELSE FitSlot(slot_name, raw_text, effective_max, count_tokens(raw_text))

\* one turn of the loop of allocate: the slot it appends
SlotFor(slot_name, raw_text, effective_max) ==
    IF raw_text = <<>>
    THEN BudgetSlot(slot_name, effective_max, <<>>, 0)
    ELSE FitSlot(slot_name, raw_text, effective_max, count_tokens(raw_text))

RECURSIVE AllocateLoop(_, _, _, _, _)
\* the next turn, were a slot charged its cap and not what it used
AllocateNextChargingCap(contents, usable, i, remaining, slots, slot) ==
    AllocateLoop(contents, usable, i + 1, remaining - slot.max_tokens,
                 Append(slots, slot))

\* slots.append(slot); remaining -= used (nothing is used by an empty slot)
AllocateNext(contents, usable, i, remaining, slots, slot) ==
    AllocateLoop(contents, usable, i + 1, remaining - slot.used_tokens,
                 Append(slots, slot))

AllocateLoop(contents, usable, i, remaining, slots) ==
    IF i > Len(SLOT_PROPORTIONS) THEN slots
    ELSE AllocateNext(contents, usable, i, remaining, slots,
             SlotFor(SLOT_PROPORTIONS[i].name,
                     GetText(contents, SLOT_PROPORTIONS[i].name),
                     EffectiveMax(Share(usable, SLOT_PROPORTIONS[i].pct), remaining)))

BudgetedContent(slots, budget_limit) ==
    [slots |-> slots, total_tokens |-> SumUsed(slots), budget_limit |-> budget_limit]

\* usable = total_budget - reserve
Usable(total_budget) == total_budget - Share(total_budget, 5)

allocate(contents, total_budget) ==
    BudgetedContent(
        AllocateLoop(contents, Usable(total_budget), 1, Usable(total_budget), <<>>),
        total_budget)

\* BudgetedContent.get_slot(name); <<>> stands for None
get_slot(budget, name) ==
    LET hits == {i \in 1..Len(budget.slots) : budget.slots[i].name = name}
    IN  IF hits = {} THEN <<>>
        ELSE <<budget.slots[CHOOSE i \in hits : \A j \in hits : i <= j]>>

(***************************************************************************)
(* Characters and the pieces of a regular expression.  A piece takes the   *)
(* text and the position j its left neighbour ended at, and gives the      *)
(* position after itself, or 0 when it, or its left neighbour, does not    *)
(* match: a pattern is its pieces nested, the leftmost innermost.  None of *)
(* the patterns of the code can match after giving back a character of a   *)
(* greedy run or of an optional piece, because what follows a run is       *)
(* outside its class.                                                      *)
(***************************************************************************)
UPPER ==
    <<"A", "B", "C", "D", "E", "F", "G", "H", "I", "J", "K", "L", "M",
      "N", "O", "P", "Q", "R", "S", "T", "U", "V", "W", "X", "Y", "Z">>

LOWER ==
    <<"a", "b", "c", "d", "e", "f", "g", "h", "i", "j", "k", "l", "m",
      "n", "o", "p", "q", "r", "s", "t", "u", "v", "w", "x", "y", "z">>

DIGITS == {"0", "1", "2", "3", "4", "5", "6", "7", "8", "9"}

UPPERS == {UPPER[i] : i \in 1..Len(UPPER)}

LOWERS == {LOWER[i] : i \in 1..Len(LOWER)}

\* [A-Za-z0-9]
ALNUM == UPPERS \cup LOWERS \cup DIGITS

\* \s
SPACES == {" ", "\n", "\t", "\r", "\f"}

\* ['"]
QUOTES == {"'", "\""}

IsSpace(c) == c \in SPACES

\* the member of a set of positions that comes first, `none` if it is empty
FirstOf(S, none) == IF S = {} THEN none ELSE CHOOSE x \in S : \A y \in S : x <= y

\* str.lower() of one character; re.IGNORECASE compares lower-cased characters
ToLower(c) ==
    IF c \in UPPERS THEN LOWER[CHOOSE i \in 1..Len(UPPER) : UPPER[i] = c] ELSE c

CharAt(s, i) == IF i >= 1 /\ i <= Len(s) THEN s[i] ELSE "EOF"

\* s[i:] starts with the literal p, compared case-insensitively
StartsWithAtCI(s, i, p) ==
    /\ i + Len(p) - 1 <= Len(s)
    /\ \A k \in 1..Len(p) : ToLower(s[i + k - 1]) = ToLower(p[k])

\* the literal p
Lit(s, j, p) == IF j > 0 /\ StartsWithAt(s, j, p) THEN j + Len(p) ELSE 0

\* the literal p under re.IGNORECASE
LitCI(s, j, p) == IF j > 0 /\ StartsWithAtCI(s, j, p) THEN j + Len(p) ELSE 0

\* one character of the set
OneOf(s, j, chars) == IF j > 0 /\ CharAt(s, j) \in chars THEN j + 1 ELSE 0

\* an optional character of the set
Opt(s, j, chars) == IF j > 0 /\ CharAt(s, j) \in chars THEN j + 1 ELSE j

\* the position after the alternative alts[k] matched at j; k = 0: none did
AltAfter(j, alts, k) == IF k = 0 THEN 0 ELSE j + Len(alts[k])

\* (?:a|b|...): the first of the literals that matches (the alternatives of
\* one pattern never match at the same place)
AltEnd(s, j, alts) ==
    IF j = 0 THEN 0
    ELSE AltAfter(j, alts, FirstOf({k \in 1..Len(alts) : StartsWithAt(s, j, alts[k])}, 0))

AltEndCI(s, j, alts) ==
    IF j = 0 THEN 0
    ELSE AltAfter(j, alts, FirstOf({k \in 1..Len(alts) : StartsWithAtCI(s, j, alts[k])}, 0))

\* [class]*: the position after the longest run of class characters from j
RunEnd(s, j, class) ==
    IF j = 0 THEN 0
    ELSE FirstOf({k \in j..Len(s) : s[k] \notin class}, Len(s) + 1)

\* [^stops]*
RunEndUntil(s, j, stops) ==
    IF j = 0 THEN 0
    ELSE FirstOf({k \in j..Len(s) : s[k] \in stops}, Len(s) + 1)

\* a run from j to e is a match of {least,}
AtLeast(j, e, least) == IF j > 0 /\ e - j >= least THEN e ELSE 0

\* [class]{least,}
ValueEnd(s, j, class, least) == AtLeast(j, RunEnd(s, j, class), least)

\* [^stops]{least,}
ValueEndUntil(s, j, stops, least) == AtLeast(j, RunEndUntil(s, j, stops), least)

\* [class]{n}
Exactly(s, j, class, n) ==
    IF /\ j > 0
       /\ j + n - 1 <= Len(s)
       /\ \A k \in j..(j + n - 1) : s[k] \in class
    THEN j + n ELSE 0

\* \s*[:=]\s*['"]?
AssignEnd(s, j) ==
    Opt(s, RunEnd(s, OneOf(s, RunEnd(s, j, SPACES), {":", "="}), SPACES), QUOTES)

(***************************************************************************)
(* security_sentinel.py: _SECRET_PATTERNS, one matcher per pattern.  Each  *)
(* gives the position after the match that starts at i, or 0.              *)
(***************************************************************************)
\* (?:api[_\-]?key|apikey|secret[_\-]?key|access[_\-]?token|auth[_\-]?token)
GENERIC_KEY_NAMES ==
    << <<"a", "p", "i", "_", "k", "e", "y">>, <<"a", "p", "i", "-", "k", "e", "y">>, <<"a", "p", "i", "k", "e", "y">>,
       <<"s", "e", "c", "r", "e", "t", "_", "k", "e", "y">>,
       <<"s", "e", "c", "r", "e", "t", "-", "k", "e", "y">>,
       <<"s", "e", "c", "r", "e", "t", "k", "e", "y">>,
       <<"a", "c", "c", "e", "s", "s", "_", "t", "o", "k", "e", "n">>,
       <<"a", "c", "c", "e", "s", "s", "-", "t", "o", "k", "e", "n">>,
       <<"a", "c", "c", "e", "s", "s", "t", "o", "k", "e", "n">>,
       <<"a", "u", "t", "h", "_", "t", "o", "k", "e", "n">>,
       <<"a", "u", "t", "h", "-", "t", "o", "k", "e", "n">>,
       <<"a", "u", "t", "h", "t", "o", "k", "e", "n">> >>

\* (?:password|passwd|secret|credential)
PASSWORD_NAMES ==
    << <<"p", "a", "s", "s", "w", "o", "r", "d">>, <<"p", "a", "s", "s", "w", "d">>, <<"s", "e", "c", "r", "e", "t">>, <<"c", "r", "e", "d", "e", "n", "t", "i", "a", "l">> >>

\* -----BEGIN (?:RSA |EC |DSA |OPENSSH )?PRIVATE KEY-----
PRIVATE_KEY_KINDS == << <<"R", "S", "A", " ">>, <<"E", "C", " ">>, <<"D", "S", "A", " ">>, <<"O", "P", "E", "N", "S", "S", "H", " ">>, <<>> >>

\* (?:postgres|mysql|mongodb)
CONN_SCHEMES == << <<"p", "o", "s", "t", "g", "r", "e", "s">>, <<"m", "y", "s", "q", "l">>, <<"m", "o", "n", "g", "o", "d", "b">> >>

\* (?:Authorization|Bearer)
BEARER_NAMES == << <<"A", "u", "t", "h", "o", "r", "i", "z", "a", "t", "i", "o", "n">>, <<"B", "e", "a", "r", "e", "r">> >>

\* AKIA[0-9A-Z]{16}
MatchAwsKey(s, i) == Exactly(s, Lit(s, i, <<"A", "K", "I", "A">>), DIGITS \cup UPPERS, 16)

\* gh[pousr]_[A-Za-z0-9_]{36,}
MatchGithubToken(s, i) ==
    ValueEnd(s, Lit(s, OneOf(s, Lit(s, i, <<"g", "h">>), {"p", "o", "u", "s", "r"}), <<"_">>),
             ALNUM \cup {"_"}, 36)

\* <name>\s*[:=]\s*['"]?[A-Za-z0-9_\-/+]{20,}['"]?   (IGNORECASE)
MatchGenericKey(s, i) ==
    Opt(s, ValueEnd(s, AssignEnd(s, AltEndCI(s, i, GENERIC_KEY_NAMES)),
                    ALNUM \cup {"_", "-", "/", "+"}, 20),
        QUOTES)

\* <name>\s*[:=]\s*['"]?[^\s'"]{8,}['"]?   (IGNORECASE)
MatchPassword(s, i) ==
    Opt(s, ValueEndUntil(s, AssignEnd(s, AltEndCI(s, i, PASSWORD_NAMES)),
                         SPACES \cup QUOTES, 8),
        QUOTES)

MatchPrivateKey(s, i) ==
    Lit(s, AltEnd(s, Lit(s, i, <<"-", "-", "-", "-", "-", "B", "E", "G", "I", "N", " ">>), PRIVATE_KEY_KINDS),
        <<"P", "R", "I", "V", "A", "T", "E", " ", "K", "E", "Y", "-", "-", "-", "-", "-">>)

\* eyJ[A-Za-z0-9_-]{10,}\.[A-Za-z0-9_-]{10,}\.[A-Za-z0-9_-]{10,}
JwtPart(s, j) == ValueEnd(s, j, ALNUM \cup {"_", "-"}, 10)

MatchJwt(s, i) ==
    JwtPart(s, Lit(s, JwtPart(s, Lit(s, JwtPart(s, Lit(s, i, <<"e", "y", "J">>)), <<".">>)), <<".">>))

\* (?:\+\w+)? after position k, given the end w of the \w* that follows a "+"
PlusWordAfter(s, k, w) == IF k > 0 /\ CharAt(s, k) = "+" /\ w > k + 1 THEN w ELSE k

OptPlusWord(s, k) == PlusWordAfter(s, k, RunEnd(s, k + 1, ALNUM \cup {"_"}))

\* <scheme>(?:\+\w+)?://[^\s]{10,}   (IGNORECASE)
MatchConnString(s, i) ==
    ValueEndUntil(s, Lit(s, OptPlusWord(s, AltEndCI(s, i, CONN_SCHEMES)), <<":", "/", "/">>),
                  SPACES, 10)

\* \s+
SpacesEnd(s, j) == AtLeast(j, RunEnd(s, j, SPACES), 1)

\* <name>\s*[:=]\s*['"]?Bearer\s+[A-Za-z0-9_\-/.]{20,}   (IGNORECASE)
MatchBearer(s, i) ==
    ValueEnd(s, SpacesEnd(s, LitCI(s, AssignEnd(s, AltEndCI(s, i, BEARER_NAMES)),
                                   <<"B", "e", "a", "r", "e", "r">>)),
             ALNUM \cup {"_", "-", "/", "."}, 20)

REDACTION == <<"[", "R", "E", "D", "A", "C", "T", "E", "D", "]">>

\* pattern.subn(_REDACTION, s) from position i on: the leftmost matches, left
\* to right, none overlapping; ends[k] is the end of the match that starts at
\* k (0 if none does).  Gives the new text and the number of replacements.
\* a replaced match after the text `head`, before the rest of the result
Replaced(head, rest) ==
    [text |-> head \o REDACTION \o rest.text, num |-> 1 + rest.num]

RECURSIVE SubnFrom(_, _, _)
\* the match at k is the next one from i on: k = 0 when there is none
SubnAt(s, ends, i, k) ==
    IF k = 0 THEN [text |-> SubSeq(s, i, Len(s)), num |-> 0]
    ELSE Replaced(SubSeq(s, i, k - 1), SubnFrom(s, ends, ends[k]))

SubnFrom(s, ends, i) ==
    SubnAt(s, ends, i, FirstOf({k \in i..Len(s) : ends[k] > 0}, 0))

\* one turn of the loop of sanitize: result, n = pattern.subn(_REDACTION, result)
Redacted(r, x) ==
    [clean_text |-> x.text, redaction_count |-> r.redaction_count + x.num]

SubAwsKey(r) ==
    Redacted(r, SubnFrom(r.clean_text,
        [k \in 1..Len(r.clean_text) |-> MatchAwsKey(r.clean_text, k)], 1))

SubGithubToken(r) ==
    Redacted(r, SubnFrom(r.clean_text,
        [k \in 1..Len(r.clean_text) |-> MatchGithubToken(r.clean_text, k)], 1))

SubGenericKey(r) ==
    Redacted(r, SubnFrom(r.clean_text,
        [k \in 1..Len(r.clean_text) |-> MatchGenericKey(r.clean_text, k)], 1))

SubPassword(r) ==
    Redacted(r, SubnFrom(r.clean_text,
        [k \in 1..Len(r.clean_text) |-> MatchPassword(r.clean_text, k)], 1))

SubPrivateKey(r) ==
    Redacted(r, SubnFrom(r.clean_text,
        [k \in 1..Len(r.clean_text) |-> MatchPrivateKey(r.clean_text, k)], 1))

SubJwt(r) ==
    Redacted(r, SubnFrom(r.clean_text,
        [k \in 1..Len(r.clean_text) |-> MatchJwt(r.clean_text, k)], 1))

SubConnString(r) ==
    Redacted(r, SubnFrom(r.clean_text,
        [k \in 1..Len(r.clean_text) |-> MatchConnString(r.clean_text, k)], 1))

SubBearer(r) ==
    Redacted(r, SubnFrom(r.clean_text,
        [k \in 1..Len(r.clean_text) |-> MatchBearer(r.clean_text, k)], 1))

\* sanitize(text): the patterns of _SECRET_PATTERNS applied in their order,
\* each to the result of the one before
sanitize(text) ==
    SubBearer(SubConnString(SubJwt(SubPrivateKey(SubPassword(SubGenericKey(
        SubGithubToken(SubAwsKey([clean_text |-> text, redaction_count |-> 0]))))))))

(***************************************************************************)
(* String helpers shared by the scorer, the filter and the use case        *)
(***************************************************************************)
\* the characters of the model in code-point order (str comparison)
CODE_ORDER ==
    <<"\n", " ", "#", "*", "-", ".", "/",
      "0", "1", "2", "3", "4", "5", "6", "7", "8", "9", ":", "=">>
    \o UPPER \o <<"[", "]", "_">> \o LOWER

Code(c) == CHOOSE i \in 1..Len(CODE_ORDER) : CODE_ORDER[i] = c

\* a < b for two str values
StrLess(a, b) ==
    \E k \in 1..(Min(Len(a), Len(b)) + 1) :
        /\ \A j \in 1..(k - 1) : a[j] = b[j]
        /\ IF k > Len(a) THEN k <= Len(b)
           ELSE k <= Len(b) /\ Code(a[k]) < Code(b[k])

\* str.lower()
Lowered(s) == [i \in 1..Len(s) |-> ToLower(s[i])]

\* str.count(ch)
CountChar(s, ch) == Cardinality({i \in 1..Len(s) : s[i] = ch})

\* str.endswith(suffix)
EndsWith(s, suffix) ==
    Len(suffix) <= Len(s) /\ StartsWithAt(s, Len(s) - Len(suffix) + 1, suffix)

\* sub in s
Contains(s, sub) == \E i \in 1..(Len(s) + 1) : StartsWithAt(s, i, sub)

\* s.rsplit(ch, maxsplit=1)[-1]
LastPart(s, ch) == SubSeq(s, RFind(s, ch) + 2, Len(s))

\* s.rsplit(ch, maxsplit=1)[0]
FirstPartR(s, ch) ==
    IF RFind(s, ch) = -1 THEN s ELSE SubSeq(s, 1, RFind(s, ch))

\* s.split(ch)[0]
FirstPart(s, ch) ==
    LET hits == {i \in 1..Len(s) : s[i] = ch}
    IN  IF hits = {} THEN s
        ELSE SubSeq(s, 1, (CHOOSE i \in hits : \A j \in hits : i <= j) - 1)

(***************************************************************************)
(* file_scorer.py.  A score is kept exact as an integer: SCORE_SCALE times *)
(* the composite of the code.                                              *)
(***************************************************************************)
\* category bonus, in tenths
CATEGORY_BONUS ==
    [readme |-> 10, config |-> 7, entry_point |-> 9, source |-> 5,
     test |-> 3, docs |-> 4, other |-> 1]

SCORER_ENTRY_POINT_NAMES ==
    { <<"m", "a", "i", "n", ".", "p", "y">>,
      <<"a", "p", "p", ".", "p", "y">>,
      <<"i", "n", "d", "e", "x", ".", "j", "s">>,
      <<"i", "n", "d", "e", "x", ".", "t", "s">>,
      <<"i", "n", "d", "e", "x", ".", "t", "s", "x">>,
      <<"s", "e", "r", "v", "e", "r", ".", "p", "y">>,
      <<"s", "e", "r", "v", "e", "r", ".", "j", "s">>,
      <<"s", "e", "r", "v", "e", "r", ".", "t", "s">>,
      <<"m", "a", "n", "a", "g", "e", ".", "p", "y">>,
      <<"c", "l", "i", ".", "p", "y">>,
      <<"w", "s", "g", "i", ".", "p", "y">>,
      <<"a", "s", "g", "i", ".", "p", "y">>,
      <<"m", "a", "i", "n", ".", "g", "o">>,
      <<"m", "a", "i", "n", ".", "r", "s">> }

PACKAGE_ROOT_NAMES ==
    { <<"_", "_", "i", "n", "i", "t", "_", "_", ".", "p", "y">>,
      <<"m", "o", "d", ".", "r", "s">>,
      <<"l", "i", "b", ".", "r", "s">> }

\* in tenths
name_heuristic(path) ==
    LET name == Lowered(LastPart(path, "/"))
    IN  IF name \in SCORER_ENTRY_POINT_NAMES THEN 10
        ELSE IF StartsWithAt(name, 1, <<"r", "e", "a", "d", "m", "e">>) THEN 10
        ELSE IF name \in PACKAGE_ROOT_NAMES THEN 6
        ELSE 0

\* depth_score is 1 / (1 + depth); the score is kept as DEPTH_SCALE / (1 + depth)
DEPTH_SCALE == 60

depth_score(path) == DEPTH_SCALE \div (1 + CountChar(path, "/"))

\* abs(math.log10(kb / 5)) for the sizes the checks draw (5 KB times a power of ten)
AbsLog10OfFifth(size_bytes) ==
    CASE size_bytes = 512   -> 1
      [] size_bytes = 5120  -> 0
      [] size_bytes = 51200 -> 1

\* in tenths
size_score(size_bytes) ==
    IF size_bytes <= 0 THEN 1
    ELSE IF size_bytes * 10 < 1024 THEN 2
    ELSE IF size_bytes > 100 * 1024 THEN 3
    ELSE Max(1, 10 - AbsLog10OfFifth(size_bytes) * 3)

\* str.replace("\\", "/")
Slashed(s) == [i \in 1..Len(s) |-> IF s[i] = "\\" THEN "/" ELSE s[i]]

\* "src/foo/bar.py" -> "bar"
ModuleName(path) ==
    LET last == LastPart(Slashed(path), "/")
    IN  IF \E i \in 1..Len(last) : last[i] = "." THEN FirstPartR(last, ".") ELSE last

\* path_by_module: a later skeleton of the same module name replaces an earlier one
PathByModule(skeletons, name) ==
    LET hits == {i \in 1..Len(skeletons) : ModuleName(skeletons[i].path) = name}
    IN  IF hits = {} THEN <<>> ELSE <<skeletons[SetMax(hits)].path>>

\* _build_import_graph: the nodes and the edges <<importer, imported>>
GraphNodes(skeletons) == {skeletons[i].path : i \in 1..Len(skeletons)}

GraphEdges(skeletons) ==
    {e \in GraphNodes(skeletons) \X GraphNodes(skeletons) :
        /\ e[1] # e[2]
        /\ \E i \in 1..Len(skeletons) :
              /\ skeletons[i].path = e[1]
              /\ \E k \in 1..Len(skeletons[i].imports) :
                    PathByModule(skeletons, FirstPart(skeletons[i].imports[k], "."))
                        = <<e[2]>>}

\* The normalised PageRank values nx.pagerank may give, in tenths: every node
\* 1.0 on a graph without edges; on a graph with edges each node 0.5 or 1.0
\* with a maximum of 1.0 (the library's result is not computed here, and
\* two values are enough to order the nodes either way).
CentralityChoices(skeletons) ==
    LET nodes == GraphNodes(skeletons)
    IN  IF Cardinality(nodes) < 2 THEN {<<>>}
        ELSE IF GraphEdges(skeletons) = {} THEN {[n \in nodes |-> 10]}
        ELSE {c \in [nodes -> {5, 10}] : \E n \in nodes : c[n] = 10}

\* categories.get(path, SOURCE), sizes.get(path, 0)
GetOr(map, key, default) == IF key \in DOMAIN map THEN map[key] ELSE default

\* SCORE_SCALE * composite = weight (percent) * component (tenths) * DEPTH_SCALE
composite_score(path, cat, size_bytes, centrality) ==
    LET cat_bonus == CATEGORY_BONUS[cat] * DEPTH_SCALE
        name_h    == name_heuristic(path) * DEPTH_SCALE
        depth_h   == depth_score(path) * 10
        size_h    == size_score(size_bytes) * DEPTH_SCALE
        cent      == GetOr(centrality, path, 0) * DEPTH_SCALE
    IN  IF Cardinality(DOMAIN centrality) >= 3
        THEN 30 * cent + 25 * cat_bonus + 20 * name_h + 15 * depth_h + 10 * size_h
        ELSE 35 * cat_bonus + 30 * name_h + 20 * depth_h + 15 * size_h

\* list.sort(key=score, reverse=True): stable, equal scores keep their order
RECURSIVE InsertByScoreDesc(_, _)
InsertByScoreDesc(sorted, x) ==
    IF sorted = <<>> THEN <<x>>
    ELSE IF Head(sorted).score >= x.score
         THEN <<Head(sorted)>> \o InsertByScoreDesc(Tail(sorted), x)
         ELSE <<x>> \o sorted

RECURSIVE SortByScoreDesc(_)
SortByScoreDesc(xs) ==
    IF xs = <<>> THEN <<>>
    ELSE InsertByScoreDesc(SortByScoreDesc(SubSeq(xs, 1, Len(xs) - 1)), xs[Len(xs)])

score_files(skeletons, categories, sizes, centrality) ==
    SortByScoreDesc(
        [i \in 1..Len(skeletons) |->
            LET path == skeletons[i].path
                cat  == GetOr(categories, path, "source")
            IN  [path |-> path,
                 score |-> composite_score(path, cat, GetOr(sizes, path, 0), centrality),
                 category |-> cat]])

(***************************************************************************)
(* file_filter.py                                                          *)
(***************************************************************************)
SKIP_DIRS ==
    { <<"n", "o", "d", "e", "_", "m", "o", "d", "u", "l", "e", "s">>,
      <<".", "g", "i", "t">>,
      <<"d", "i", "s", "t">>,
      <<"b", "u", "i", "l", "d">>,
      <<"o", "u", "t">>,
      <<"v", "e", "n", "v">>,
      <<".", "v", "e", "n", "v">>,
      <<"e", "n", "v">>,
      <<"_", "_", "p", "y", "c", "a", "c", "h", "e", "_", "_">>,
      <<".", "t", "o", "x">>,
      <<".", "n", "o", "x">>,
      <<".", "m", "y", "p", "y", "_", "c", "a", "c", "h", "e">>,
      <<".", "p", "y", "t", "e", "s", "t", "_", "c", "a", "c", "h", "e">>,
      <<".", "r", "u", "f", "f", "_", "c", "a", "c", "h", "e">>,
      <<"v", "e", "n", "d", "o", "r">>,
      <<".", "i", "d", "e", "a">>,
      <<".", "v", "s", "c", "o", "d", "e">>,
      <<".", "n", "e", "x", "t">>,
      <<".", "n", "u", "x", "t">>,
      <<"c", "o", "v", "e", "r", "a", "g", "e">>,
      <<".", "c", "o", "v", "e", "r", "a", "g", "e">>,
      <<"h", "t", "m", "l", "c", "o", "v">>,
      <<".", "e", "g", "g", "s">>,
      <<"t", "a", "r", "g", "e", "t">>,
      <<"P", "o", "d", "s">>,
      <<".", "g", "r", "a", "d", "l", "e">>,
      <<".", "t", "e", "r", "r", "a", "f", "o", "r", "m">> }

SKIP_EXTENSIONS ==
    { <<".", "p", "y", "c">>,
      <<".", "p", "y", "o">>,
      <<".", "s", "o">>,
      <<".", "o">>,
      <<".", "a">>,
      <<".", "d", "y", "l", "i", "b">>,
      <<".", "d", "l", "l">>,
      <<".", "e", "x", "e">>,
      <<".", "b", "i", "n">>,
      <<".", "c", "l", "a", "s", "s">>,
      <<".", "j", "a", "r">>,
      <<".", "p", "n", "g">>,
      <<".", "j", "p", "g">>,
      <<".", "j", "p", "e", "g">>,
      <<".", "g", "i", "f">>,
      <<".", "b", "m", "p">>,
      <<".", "s", "v", "g">>,
      <<".", "i", "c", "o">>,
      <<".", "w", "e", "b", "p">>,
      <<".", "m", "p", "3">>,
      <<".", "m", "p", "4">>,
      <<".", "a", "v", "i">>,
      <<".", "m", "o", "v">>,
      <<".", "w", "a", "v">>,
      <<".", "w", "o", "f", "f">>,
      <<".", "w", "o", "f", "f", "2">>,
      <<".", "t", "t", "f">>,
      <<".", "e", "o", "t">>,
      <<".", "o", "t", "f">>,
      <<".", "z", "i", "p">>,
      <<".", "t", "a", "r">>,
      <<".", "g", "z">>,
      <<".", "b", "z", "2">>,
      <<".", "r", "a", "r">>,
      <<".", "7", "z">>,
      <<".", "p", "d", "f">>,
      <<".", "d", "o", "c">>,
      <<".", "d", "o", "c", "x">>,
      <<".", "x", "l", "s">>,
      <<".", "x", "l", "s", "x">>,
      <<".", "l", "o", "c", "k">>,
      <<".", "m", "i", "n", ".", "j", "s">>,
      <<".", "m", "i", "n", ".", "c", "s", "s">>,
      <<".", "m", "a", "p">>,
      <<".", "D", "S", "_", "S", "t", "o", "r", "e">> }

SKIP_FILENAMES ==
    { <<".", "D", "S", "_", "S", "t", "o", "r", "e">>,
      <<"T", "h", "u", "m", "b", "s", ".", "d", "b">>,
      <<".", "g", "i", "t", "a", "t", "t", "r", "i", "b", "u", "t", "e", "s">>,
      <<".", "e", "d", "i", "t", "o", "r", "c", "o", "n", "f", "i", "g">>,
      <<"y", "a", "r", "n", ".", "l", "o", "c", "k">>,
      <<"p", "a", "c", "k", "a", "g", "e", "-", "l", "o", "c", "k", ".", "j", "s", "o", "n">>,
      <<"p", "n", "p", "m", "-", "l", "o", "c", "k", ".", "y", "a", "m", "l">>,
      <<"P", "i", "p", "f", "i", "l", "e", ".", "l", "o", "c", "k">>,
      <<"p", "o", "e", "t", "r", "y", ".", "l", "o", "c", "k">>,
      <<"c", "o", "m", "p", "o", "s", "e", "r", ".", "l", "o", "c", "k">>,
      <<"G", "e", "m", "f", "i", "l", "e", ".", "l", "o", "c", "k">>,
      <<"C", "a", "r", "g", "o", ".", "l", "o", "c", "k">> }

SECRET_FILES ==
    { <<".", "e", "n", "v">>,
      <<".", "e", "n", "v", ".", "l", "o", "c", "a", "l">>,
      <<".", "e", "n", "v", ".", "p", "r", "o", "d", "u", "c", "t", "i", "o", "n">>,
      <<".", "e", "n", "v", ".", "d", "e", "v", "e", "l", "o", "p", "m", "e", "n", "t">> }

README_NAMES ==
    { <<"r", "e", "a", "d", "m", "e", ".", "m", "d">>,
      <<"r", "e", "a", "d", "m", "e", ".", "r", "s", "t">>,
      <<"r", "e", "a", "d", "m", "e", ".", "t", "x", "t">>,
      <<"r", "e", "a", "d", "m", "e">> }

CONFIG_NAMES ==
    { <<"p", "y", "p", "r", "o", "j", "e", "c", "t", ".", "t", "o", "m", "l">>,
      <<"s", "e", "t", "u", "p", ".", "p", "y">>,
      <<"s", "e", "t", "u", "p", ".", "c", "f", "g">>,
      <<"p", "a", "c", "k", "a", "g", "e", ".", "j", "s", "o", "n">>,
      <<"t", "s", "c", "o", "n", "f", "i", "g", ".", "j", "s", "o", "n">>,
      <<"w", "e", "b", "p", "a", "c", "k", ".", "c", "o", "n", "f", "i", "g", ".", "j", "s">>,
      <<"v", "i", "t", "e", ".", "c", "o", "n", "f", "i", "g", ".", "t", "s">>,
      <<"r", "e", "q", "u", "i", "r", "e", "m", "e", "n", "t", "s", ".", "t", "x", "t">>,
      <<"r", "e", "q", "u", "i", "r", "e", "m", "e", "n", "t", "s", ".", "i", "n">>,
      <<"P", "i", "p", "f", "i", "l", "e">>,
      <<"C", "a", "r", "g", "o", ".", "t", "o", "m", "l">>,
      <<"g", "o", ".", "m", "o", "d">>,
      <<"g", "o", ".", "s", "u", "m">>,
      <<"G", "e", "m", "f", "i", "l", "e">>,
      <<"b", "u", "i", "l", "d", ".", "g", "r", "a", "d", "l", "e">>,
      <<"p", "o", "m", ".", "x", "m", "l">>,
      <<"M", "a", "k", "e", "f", "i", "l", "e">>,
      <<"C", "M", "a", "k", "e", "L", "i", "s", "t", "s", ".", "t", "x", "t">>,
      <<"J", "u", "s", "t", "f", "i", "l", "e">>,
      <<"D", "o", "c", "k", "e", "r", "f", "i", "l", "e">>,
      <<"d", "o", "c", "k", "e", "r", "-", "c", "o", "m", "p", "o", "s", "e", ".", "y", "m", "l">>,
      <<"d", "o", "c", "k", "e", "r", "-", "c", "o", "m", "p", "o", "s", "e", ".", "y", "a", "m", "l">>,
      <<".", "e", "n", "v", ".", "e", "x", "a", "m", "p", "l", "e">>,
      <<"t", "o", "x", ".", "i", "n", "i">>,
      <<".", "f", "l", "a", "k", "e", "8">>,
      <<"r", "u", "f", "f", ".", "t", "o", "m", "l">>,
      <<".", "p", "r", "e", "t", "t", "i", "e", "r", "r", "c">> }

ENTRY_POINT_NAMES ==
    { <<"m", "a", "i", "n", ".", "p", "y">>,
      <<"a", "p", "p", ".", "p", "y">>,
      <<"m", "a", "n", "a", "g", "e", ".", "p", "y">>,
      <<"w", "s", "g", "i", ".", "p", "y">>,
      <<"a", "s", "g", "i", ".", "p", "y">>,
      <<"i", "n", "d", "e", "x", ".", "j", "s">>,
      <<"i", "n", "d", "e", "x", ".", "t", "s">>,
      <<"i", "n", "d", "e", "x", ".", "t", "s", "x">>,
      <<"s", "e", "r", "v", "e", "r", ".", "p", "y">>,
      <<"s", "e", "r", "v", "e", "r", ".", "j", "s">>,
      <<"s", "e", "r", "v", "e", "r", ".", "t", "s">>,
      <<"c", "l", "i", ".", "p", "y">>,
      <<"c", "l", "i", ".", "j", "s">>,
      <<"m", "a", "i", "n", ".", "g", "o">>,
      <<"m", "a", "i", "n", ".", "r", "s">>,
      <<"m", "a", "i", "n", ".", "c">>,
      <<"m", "a", "i", "n", ".", "c", "p", "p">>,
      <<"P", "r", "o", "g", "r", "a", "m", ".", "c", "s">> }

TEST_INDICATORS ==
    { <<"t", "e", "s", "t", "_">>,
      <<"_", "t", "e", "s", "t", ".">>,
      <<".", "t", "e", "s", "t", ".">>,
      <<"t", "e", "s", "t", "s", "/">>,
      <<"s", "p", "e", "c", "/">>,
      <<"_", "_", "t", "e", "s", "t", "s", "_", "_", "/">> }

DOCS_INDICATORS ==
    { <<"d", "o", "c", "s", "/">>,
      <<"d", "o", "c", "/">>,
      <<"d", "o", "c", "u", "m", "e", "n", "t", "a", "t", "i", "o", "n", "/">> }

\* str.split(ch)
Split(s, ch) ==
    LET cuts == AscendingRange({k \in 1..Len(s) : s[k] = ch}, 1, Len(s))
    IN  [k \in 1..(Len(cuts) + 1) |->
            SubSeq(s, IF k = 1 THEN 1 ELSE cuts[k - 1] + 1,
                      IF k > Len(cuts) THEN Len(s) ELSE cuts[k] - 1)]

segment_in_skip_dirs(path) ==
    LET parts == Split(path, "/")
    IN  \E k \in 1..Len(parts) :
            parts[k] \in SKIP_DIRS \/ EndsWith(parts[k], <<".", "e", "g", "g", "-", "i", "n", "f", "o">>)

has_skip_extension(path) ==
    LET lower == Lowered(path)
    IN  \E ext \in SKIP_EXTENSIONS : EndsWith(lower, ext)

filename(path) == LastPart(path, "/")

should_skip(node, max_size_kb) ==
    LET path_lower == Lowered(node.path)
        name       == filename(path_lower)
    IN  IF node.type # "blob" THEN TRUE
        ELSE IF name \in SECRET_FILES THEN TRUE
        ELSE IF name \in SKIP_FILENAMES THEN TRUE
        ELSE IF segment_in_skip_dirs(node.path) THEN TRUE
        ELSE IF has_skip_extension(path_lower) THEN TRUE
        ELSE IF node.size > max_size_kb * 1024 THEN TRUE
        ELSE FALSE

classify(path) ==
    LET name_lower == Lowered(filename(path))
        path_lower == Lowered(path)
    IN  IF name_lower \in README_NAMES THEN "readme"
        ELSE IF name_lower \in CONFIG_NAMES THEN "config"
        ELSE IF name_lower \in ENTRY_POINT_NAMES THEN "entry_point"
        ELSE IF \E ind \in TEST_INDICATORS : Contains(path_lower, ind) THEN "test"
        ELSE IF \E ind \in DOCS_INDICATORS : Contains(path_lower, ind) THEN "docs"
        ELSE "source"

RECURSIVE filter_and_classify(_, _)
filter_and_classify(nodes, max_size_kb) ==
    IF nodes = <<>> THEN <<>>
    ELSE LET node == Head(nodes)
             rest == filter_and_classify(Tail(nodes), max_size_kb)
         IN  IF should_skip(node, max_size_kb) THEN rest
             ELSE <<[node |-> node, category |-> classify(node.path)]>> \o rest

(***************************************************************************)
(* More string helpers                                                     *)
(***************************************************************************)
\* sep.join(parts)
Join(parts, sep) ==
    Concat([k \in 1..(2 * Len(parts) - 1) |->
               IF k % 2 = 1 THEN parts[(k + 1) \div 2] ELSE sep])

\* s[:n]
Take(s, n) == SubSeq(s, 1, Min(n, Len(s)))

\* str.splitlines(): the line feed is the only line boundary of the model
SplitLines(s) ==
    LET pieces == Split(s, "\n")
    IN  IF pieces[Len(pieces)] = <<>> THEN SubSeq(pieces, 1, Len(pieces) - 1)
        ELSE pieces

\* str.lstrip(), str.rstrip(), str.strip()
LStrip(s) == SubSeq(s, RunEnd(s, 1, SPACES), Len(s))

RStrip(s) ==
    LET keep == {k \in 1..Len(s) : ~IsSpace(s[k])}
    IN  IF keep = {} THEN <<>> ELSE SubSeq(s, 1, SetMax(keep))

Strip(s) == LStrip(RStrip(s))

\* the first position >= i where sub starts, 0 if none
FindFrom(s, sub, i) ==
    LET hits == {k \in i..(Len(s) + 1) : StartsWithAt(s, k, sub)}
    IN  IF hits = {} THEN 0 ELSE CHOOSE k \in hits : \A j \in hits : k <= j

\* the indices of 1..n that are in keep, in order: the indices a list
\* comprehension with a filter keeps
SelectIdx(n, keep) == AscendingRange(keep, 1, n)

(***************************************************************************)
(* ast_extractor.py                                                        *)
(*                                                                         *)
(* ast.parse is the interpreter's parser, not code of the repository: its  *)
(* result is given by the table PY_MODULES for the Python texts the checks *)
(* draw (a raised exception, or the module's tree).  What the extractor    *)
(* does with a tree is translated from the code.                           *)
(***************************************************************************)
PYTHON_EXTS == { <<".", "p", "y">>, <<".", "p", "y", "w">> }

JS_TS_EXTS ==
    { <<".", "j", "s">>, <<".", "j", "s", "x">>, <<".", "t", "s">>, <<".", "t", "s", "x">>, <<".", "m", "j", "s">>, <<".", "c", "j", "s">> }

MAX_FALLBACK_LINES == 60

\* ast nodes; a field a node type does not have is empty
AstNode(type, name, args, doc, body, names, module) ==
    [type |-> type, name |-> name, args |-> args, vararg |-> <<>>,
     kwarg |-> <<>>, returns |-> <<>>, doc |-> doc, body |-> body,
     names |-> names, module |-> module]

FunctionDef(name, argnames, doc, body) ==
    AstNode("FunctionDef", name,
            [i \in 1..Len(argnames) |-> [arg |-> argnames[i], annotation |-> <<>>]],
            doc, body, <<>>, <<>>)

ClassDef(name, doc, body) == AstNode("ClassDef", name, <<>>, doc, body, <<>>, <<>>)

Import(names) == AstNode("Import", <<>>, <<>>, <<>>, <<>>, names, <<>>)

ImportFrom(module) == AstNode("ImportFrom", <<>>, <<>>, <<>>, <<>>, <<>>, module)

\* any other statement, with the statements nested in it
Stmt(body) == AstNode("Stmt", <<>>, <<>>, <<>>, body, <<>>, <<>>)

Module(doc, body) == [raises |-> "", doc |-> doc, body |-> body]

ParseRaises(exc) == [raises |-> exc, doc |-> <<>>, body |-> <<>>]

\* names of one Import / ImportFrom node, cut at the first dot
ImportsOf(node) ==
    IF node.type = "Import"
    THEN [k \in 1..Len(node.names) |-> FirstPart(node.names[k], ".")]
    ELSE IF node.type = "ImportFrom" /\ node.module # <<>> /\ node.module[1] # <<>>
    THEN <<FirstPart(node.module[1], ".")>>
    ELSE <<>>

\* ast.walk visits breadth first
RECURSIVE WalkImports(_)
WalkImports(queue) ==
    IF queue = <<>> THEN <<>>
    ELSE ImportsOf(Head(queue)) \o WalkImports(Tail(queue) \o Head(queue).body)

extract_python_imports(parsed) == WalkImports(parsed.body)

\* an annotation is [raises, text]: what ast.unparse does with it
Unparse(x) == IF x.raises THEN <<".", ".", ".">> ELSE x.text

format_arg(arg) ==
    IF arg.annotation # <<>>
    THEN arg.arg \o <<":", " ">> \o Unparse(arg.annotation[1])
    ELSE arg.arg

\* the first line of a docstring
FirstLine(doc) == SplitLines(doc)[1]

format_function(node) ==
    LET prefix     == IF node.type = "AsyncFunctionDef" THEN <<"a", "s", "y", "n", "c", " ", "d", "e", "f">>
                      ELSE <<"d", "e", "f">>
        args_parts == [i \in 1..Len(node.args) |-> format_arg(node.args[i])]
                      \o (IF node.vararg # <<>>
                          THEN <<<<"*">> \o format_arg(node.vararg[1])>> ELSE <<>>)
                      \o (IF node.kwarg # <<>>
                          THEN <<<<"*", "*">> \o format_arg(node.kwarg[1])>> ELSE <<>>)
        args_str   == Join(args_parts, <<",", " ">>)
        returns    == IF node.returns # <<>>
                      THEN <<" ", "-", ">", " ">> \o Unparse(node.returns[1]) ELSE <<>>
        has_doc    == node.doc # <<>> /\ node.doc[1] # <<>>
        doc_line   == <<" ", " ", " ", " ", "\"", "\"", "\"">> \o FirstLine(node.doc[1]) \o <<"\"", "\"", "\"">>
        head       == prefix \o <<" ">> \o node.name \o <<"(">> \o args_str
                      \o <<")">> \o returns \o <<":">>
    IN  Join(<<head>> \o (IF has_doc THEN <<doc_line>> ELSE <<>>)
             \o <<<<" ", " ", " ", " ", ".", ".", ".">>>>, <<"\n">>)

IsFunction(node) == node.type \in {"FunctionDef", "AsyncFunctionDef"}

\* textwrap.indent(text, "    "): lines of white space only are left alone
IndentLine(line) == IF Strip(line) = <<>> THEN line ELSE <<" ", " ", " ", " ">> \o line

Indent(text) ==
    LET lines == Split(text, "\n")
    IN  Join([i \in 1..Len(lines) |-> IndentLine(lines[i])], <<"\n">>)

format_class(node) ==
    LET has_doc == node.doc # <<>> /\ node.doc[1] # <<>>
        header  == <<"c", "l", "a", "s", "s", " ">> \o node.name \o <<":">>
                   \o (IF has_doc
                       THEN <<"\n", " ", " ", " ", " ", "\"", "\"", "\"">> \o FirstLine(node.doc[1]) \o <<"\"", "\"", "\"">>
                       ELSE <<>>)
        idx     == SelectIdx(Len(node.body),
                             {i \in 1..Len(node.body) : IsFunction(node.body[i])})
        methods == [k \in 1..Len(idx) |-> Indent(format_function(node.body[idx[k]]))]
    IN  header \o (IF methods # <<>> THEN <<"\n">> \o Join(methods, <<"\n">>)
                   ELSE <<"\n", " ", " ", " ", " ", ".", ".", ".">>)

\* _extract_python_skeleton on the tree ast.parse gave
extract_python_skeleton(source, parsed) ==
    LET has_doc == parsed.doc # <<>> /\ parsed.doc[1] # <<>>
        idx     == SelectIdx(Len(parsed.body),
                             {i \in 1..Len(parsed.body) :
                                 parsed.body[i].type = "ClassDef" \/ IsFunction(parsed.body[i])})
        parts   == (IF has_doc
                    THEN <<<<"\"", "\"", "\"">> \o FirstLine(parsed.doc[1]) \o <<"\"", "\"", "\"">>>> ELSE <<>>)
                   \o [k \in 1..Len(idx) |->
                         IF parsed.body[idx[k]].type = "ClassDef"
                         THEN format_class(parsed.body[idx[k]])
                         ELSE format_function(parsed.body[idx[k]])]
    IN  [skeleton |-> IF parts # <<>> THEN Join(parts, <<"\n", "\n">>) ELSE Take(source, 500),
         imports  |-> extract_python_imports(parsed)]

\* \w
WORD == ALNUM \cup {"_"}

\* \w+
WordEnd(s, j) == AtLeast(j, RunEnd(s, j, WORD), 1)

\* kw\s+
KeywordEnd(s, j, kw) == SpacesEnd(s, Lit(s, j, kw))

\* what an optional piece gives: the end e of the piece if it matched at j
OrSkip(j, e) == IF e > 0 THEN e ELSE j

\* (?:kw\s+)?  (a pattern of the code never matches by leaving out an
\* optional keyword that is there: the keyword would have to start the
\* next piece)
OptKeywordEnd(s, j, kw) == OrSkip(j, KeywordEnd(s, j, kw))

\* (?:a|b|...)\s+
AnyKeywordEnd(s, j, kws) == SpacesEnd(s, AltEnd(s, j, kws))

\* (?:export\s+)? after ^\s*, which ends at start
ExportEnd(line, start) == OptKeywordEnd(line, start, <<"e", "x", "p", "o", "r", "t">>)

\* (?:export\s+)?(?:default\s+)?
ExportDefaultEnd(line, start) ==
    OptKeywordEnd(line, ExportEnd(line, start), <<"d", "e", "f", "a", "u", "l", "t">>)

\* _JS_PATTERNS: some pattern matches the line, `start` being where its
\* leading white space ends
JsPatternMatches(line, start) ==
    \/ WordEnd(line, KeywordEnd(line, ExportDefaultEnd(line, start), <<"c", "l", "a", "s", "s">>)) > 0
    \/ WordEnd(line, KeywordEnd(line, ExportDefaultEnd(line, start), <<"f", "u", "n", "c", "t", "i", "o", "n">>)) > 0
    \/ Lit(line,
           OptKeywordEnd(line,
               RunEnd(line,
                   Lit(line,
                       RunEnd(line,
                           WordEnd(line,
                               AnyKeywordEnd(line, ExportEnd(line, start),
                                   << <<"c", "o", "n", "s", "t">>, <<"l", "e", "t">>, <<"v", "a", "r">> >>)),
                           SPACES),
                       <<"=">>),
                   SPACES),
               <<"a", "s", "y", "n", "c">>),
           <<"(">>) > 0
    \/ WordEnd(line, AnyKeywordEnd(line, ExportEnd(line, start),
                                   << <<"i", "n", "t", "e", "r", "f", "a", "c", "e">>, <<"t", "y", "p", "e">> >>)) > 0
    \/ OneOf(line,
             RunEnd(line, AltEnd(line, start, << <<"i", "m", "p", "o", "r", "t">>, <<"r", "e", "q", "u", "i", "r", "e">> >>), SPACES),
             {"(", "{"}) > 0

\* (?:from|require\()\s*['"]([^'"]+)['"] matched at i: the position after
\* the match, 0 if there is none
JsImportTargetEnd(s, i) ==
    OneOf(s,
          ValueEndUntil(s,
              OneOf(s, RunEnd(s, AltEnd(s, i, << <<"f", "r", "o", "m">>, <<"r", "e", "q", "u", "i", "r", "e", "(">> >>), SPACES),
                    QUOTES),
              QUOTES, 1),
          QUOTES)

\* group 1 of the match that ends before e: what is between its closing
\* quote and the quote before it
JsImportGroup(s, e) ==
    SubSeq(s, SetMax({k \in 1..(e - 2) : s[k] \in QUOTES}) + 1, e - 2)

\* re.search: the match that starts first; ends[i] is the end of the match
\* at i
JsImportTargetIn(s, ends) ==
    IF \A i \in DOMAIN ends : ends[i] = 0 THEN s
    ELSE JsImportGroup(s, ends[FirstOf({i \in DOMAIN ends : ends[i] > 0}, 0)])

parse_js_import_target(imp_line) ==
    JsImportTargetIn(imp_line,
                     [i \in 1..Len(imp_line) |-> JsImportTargetEnd(imp_line, i)])

JsIsImport(stripped) ==
    \/ /\ \/ StartsWithAt(stripped, 1, <<"i", "m", "p", "o", "r", "t", " ">>)
          \/ StartsWithAt(stripped, 1, <<"c", "o", "n", "s", "t", " ">>)
       /\ Contains(stripped, <<"r", "e", "q", "u", "i", "r", "e", "(">>)
    \/ StartsWithAt(stripped, 1, <<"i", "m", "p", "o", "r", "t", " ">>)

\* the result of _extract_js_skeleton from the lines, the lines stripped,
\* and the indices of the import lines and of the declaration lines
JsSkeletonOf(lines, stripped, imps, decls) ==
    [skeleton |-> IF decls # <<>>
                  THEN Join([k \in 1..Len(decls) |-> stripped[decls[k]]], <<"\n">>)
                  ELSE Join(Take(lines, MAX_FALLBACK_LINES), <<"\n">>),
     imports  |-> [k \in 1..Len(imps) |-> parse_js_import_target(stripped[imps[k]])]]

JsScan(lines, stripped) ==
    JsSkeletonOf(lines, stripped,
        SelectIdx(Len(lines), {i \in 1..Len(lines) : JsIsImport(stripped[i])}),
        SelectIdx(Len(lines),
                  {i \in 1..Len(lines) :
                      /\ ~JsIsImport(stripped[i])
                      /\ JsPatternMatches(lines[i], RunEnd(lines[i], 1, SPACES))}))

JsLines(lines) == JsScan(lines, [i \in 1..Len(lines) |-> Strip(lines[i])])

extract_js_skeleton(source) == JsLines(SplitLines(source))

DECLARATION_KEYWORDS ==
    { <<"d", "e", "f", " ">>, <<"f", "n", " ">>, <<"f", "u", "n", "c", " ">>, <<"c", "l", "a", "s", "s", " ">>, <<"s", "t", "r", "u", "c", "t", " ">>, <<"p", "u", "b", " ">>,
      <<"p", "a", "c", "k", "a", "g", "e", " ">>, <<"m", "o", "d", "u", "l", "e", " ">>, <<"t", "y", "p", "e", " ">>, <<"i", "n", "t", "e", "r", "f", "a", "c", "e", " ">>, <<"i", "m", "p", "l", " ">>,
      <<"e", "n", "u", "m", " ">>, <<"#", "i", "n", "c", "l", "u", "d", "e", " ">>, <<"u", "s", "i", "n", "g", " ">>, <<"n", "a", "m", "e", "s", "p", "a", "c", "e", " ">> }

COMMENT_STARTS == { <<"/", "/">>, <<"#">>, <<"/", "*">> }

GENERIC_SCAN_LINES == 300

GENERIC_MIN_MEANINGFUL == 3

IsMeaningful(line) ==
    \/ \E kw \in DECLARATION_KEYWORDS : StartsWithAt(line, RunEnd(line, 1, SPACES), kw)
    \/ \E c \in COMMENT_STARTS : StartsWithAt(Strip(line), 1, c)

\* the result of _extract_generic_skeleton from the lines and the indices
\* of the meaningful ones among the first 300
GenericSkeletonOf(lines, idx) ==
    [skeleton |-> Join(IF Len(idx) < GENERIC_MIN_MEANINGFUL
                       THEN [k \in 1..Min(Len(lines), MAX_FALLBACK_LINES) |-> RStrip(lines[k])]
                       ELSE [k \in 1..Len(idx) |-> Strip(lines[idx[k]])],
                       <<"\n">>),
     imports  |-> <<>>]

GenericLines(lines) ==
    GenericSkeletonOf(lines,
        SelectIdx(Min(Len(lines), GENERIC_SCAN_LINES),
                  {i \in 1..Min(Len(lines), GENERIC_SCAN_LINES) : IsMeaningful(lines[i])}))

extract_generic_skeleton(source) == GenericLines(SplitLines(source))

\* _extension(path)
ExtensionAt(path, dot) ==
    IF dot = -1 THEN <<>> ELSE Lowered(SubSeq(path, dot + 1, Len(path)))

extension(path) == ExtensionAt(path, RFind(path, "."))

FileSkeletonResult(path, skeleton_text, imports) ==
    [path |-> path, skeleton_text |-> skeleton_text, imports |-> imports, raises |-> ""]

\* what extract_skeleton returns for the (skeleton, imports) pair r
SkeletonResultOf(path, r) == FileSkeletonResult(path, r.skeleton, r.imports)

\* extract_skeleton(path, content), `parsed` being what ast.parse(content)
\* gives.  Only SyntaxError is caught: another exception of the parser leaves
\* the function (raises names it).
ExtractByExt(path, content, parsed, ext) ==
    IF ext \in PYTHON_EXTS
    THEN IF parsed.raises = "SyntaxError"
         THEN FileSkeletonResult(path,
                  Join(Take(SplitLines(content), MAX_FALLBACK_LINES), <<"\n">>), <<>>)
         ELSE IF parsed.raises # ""
         THEN [path |-> path, skeleton_text |-> <<>>, imports |-> <<>>,
               raises |-> parsed.raises]
         ELSE SkeletonResultOf(path, extract_python_skeleton(content, parsed))
    ELSE IF ext \in JS_TS_EXTS
    THEN SkeletonResultOf(path, extract_js_skeleton(content))
    ELSE SkeletonResultOf(path, extract_generic_skeleton(content))

extract_skeleton(path, content, parsed) ==
    ExtractByExt(path, content, parsed, extension(path))

(***************************************************************************)
(* content_assembler.py                                                    *)
(***************************************************************************)
\* _HEADERS; every slot name of the allocator has a header
HEADERS ==
    [languages |-> <<"#", "#", " ", "R", "e", "p", "o", "s", "i", "t", "o", "r", "y", " ",
        "L", "a", "n", "g", "u", "a", "g", "e", "s", " ", "(", "f", "r", "o",
        "m", " ", "G", "i", "t", "H", "u", "b", ")">>,
     readme    |-> <<"#", "#", " ", "R", "E", "A", "D", "M", "E">>,
     config    |-> <<"#", "#", " ", "C", "o", "n", "f", "i", "g", "u", "r", "a", "t", "i",
        "o", "n", " ", "/", " ", "M", "e", "t", "a", "d", "a", "t", "a", " ",
        "F", "i", "l", "e", "s">>,
     tree      |-> <<"#", "#", " ", "D", "i", "r", "e", "c", "t", "o", "r", "y", " ", "S",
        "t", "r", "u", "c", "t", "u", "r", "e">>,
     source    |-> <<"#", "#", " ", "K", "e", "y", " ", "S", "o", "u", "r", "c", "e", " ",
        "F", "i", "l", "e", "s", " ", "(", "A", "S", "T", " ", "S", "k", "e",
        "l", "e", "t", "o", "n", "s", ")">>]

assemble(budget) ==
    LET idx == SelectIdx(Len(budget.slots),
                         {i \in 1..Len(budget.slots) : budget.slots[i].content # <<>>})
        sections == [k \in 1..Len(idx) |->
                        HEADERS[budget.slots[idx[k]].name] \o <<"\n", "\n">>
                        \o budget.slots[idx[k]].content]
    IN  Join(sections, <<"\n", "\n", "-", "-", "-", "\n", "\n">>)

(***************************************************************************)
(* summarize_repo.py: the synchronous parts of SummarizeRepoUseCase        *)
(***************************************************************************)
\* the decimal digits of a natural number
RECURSIVE IntToStr(_)
IntToStr(n) ==
    LET d == <<"0", "1", "2", "3", "4", "5", "6", "7", "8", "9">>[(n % 10) + 1]
    IN  IF n < 10 THEN <<d>> ELSE IntToStr(n \div 10) \o <<d>>

\* f"{bytes_count / total_bytes * 100:.1f}": one decimal, ties to even
FormatPercent(bytes_count, total_bytes) ==
    LET q      == (bytes_count * 1000) \div total_bytes
        r      == (bytes_count * 1000) % total_bytes
        tenths == IF 2 * r > total_bytes \/ (2 * r = total_bytes /\ q % 2 = 1)
                  THEN q + 1 ELSE q
    IN  IntToStr(tenths \div 10) \o <<".">> \o IntToStr(tenths % 10)

PRIORITY ==
    [readme |-> 0, config |-> 1, entry_point |-> 2, source |-> 3,
     docs |-> 4, test |-> 5, other |-> 6]

\* (priority, path) of a is less than that of b
SelectBefore(a, b) ==
    \/ PRIORITY[a.category] < PRIORITY[b.category]
    \/ PRIORITY[a.category] = PRIORITY[b.category] /\ StrLess(a.node.path, b.node.path)

\* list.sort is stable: x goes after the entries that are not after it
RECURSIVE InsertSelected(_, _)
InsertSelected(x, sorted) ==
    IF sorted = <<>> THEN <<x>>
    ELSE IF SelectBefore(x, Head(sorted)) THEN <<x>> \o sorted
    ELSE <<Head(sorted)>> \o InsertSelected(x, Tail(sorted))

RECURSIVE SortSelected(_)
SortSelected(items) ==
    IF items = <<>> THEN <<>>
    ELSE InsertSelected(items[Len(items)], SortSelected(SubSeq(items, 1, Len(items) - 1)))

\* _select_files_to_fetch without its sort: the first entries of the list as
\* the filter gave it
select_files_unsorted(classified, max_files) == Take(classified, max_files)

select_files_to_fetch(classified, max_files) ==
    Take(SortSelected(classified), max_files)

LANGUAGE_MAP ==
    { <<<<".", "p", "y">>, "Python">>, <<<<".", "j", "s">>, "JavaScript">>, <<<<".", "t", "s">>, "TypeScript">>,
      <<<<".", "t", "s", "x">>, "TypeScript">>, <<<<".", "j", "s", "x">>, "JavaScript">>, <<<<".", "g", "o">>, "Go">>,
      <<<<".", "r", "s">>, "Rust">>, <<<<".", "r", "b">>, "Ruby">>, <<<<".", "j", "a", "v", "a">>, "Java">>,
      <<<<".", "k", "t">>, "Kotlin">>, <<<<".", "c", "s">>, "C#">>, <<<<".", "c">>, "C">>,
      <<<<".", "c", "p", "p">>, "C++">>, <<<<".", "h">>, "C">>, <<<<".", "h", "p", "p">>, "C++">>,
      <<<<".", "s", "w", "i", "f", "t">>, "Swift">>, <<<<".", "p", "h", "p">>, "PHP">>, <<<<".", "s", "h">>, "Shell">>,
      <<<<".", "b", "a", "s", "h">>, "Shell">>, <<<<".", "y", "a", "m", "l">>, "YAML">>, <<<<".", "y", "m", "l">>, "YAML">>,
      <<<<".", "t", "o", "m", "l">>, "TOML">>, <<<<".", "j", "s", "o", "n">>, "JSON">>, <<<<".", "m", "d">>, "Markdown">>,
      <<<<".", "h", "t", "m", "l">>, "HTML">>, <<<<".", "c", "s", "s">>, "CSS">>, <<<<".", "s", "c", "s", "s">>, "SCSS">> }

infer_language(path) ==
    LET hits == {e \in LANGUAGE_MAP : e[1] = extension(path)}
    IN  IF RFind(path, ".") = -1 \/ hits = {} THEN "unknown"
        ELSE (CHOOSE e \in hits : TRUE)[2]

RepoFile(node, content, category) ==
    [path |-> node.path, content |-> content, size_bytes |-> node.size,
     language |-> infer_language(node.path), category |-> category]

TREE_LINE_CAP == 200

render_tree(nodes) ==
    LET lines == [i \in 1..Len(nodes) |->
                    IF nodes[i].type = "tree" THEN nodes[i].path \o <<"/">>
                    ELSE nodes[i].path]
    IN  IF Len(lines) > TREE_LINE_CAP
        THEN Join(Take(lines, TREE_LINE_CAP)
                  \o <<<<"U2026">> \o <<" ", "a", "n", "d", " ">> \o IntToStr(Len(nodes) - TREE_LINE_CAP)
                       \o <<" ", "m", "o", "r", "e", " ", "f", "i", "l", "e", "s">>>>, <<"\n">>)
        ELSE Join(lines, <<"\n">>)

\* sorted(languages.items(), key=lambda x: -x[1]); `languages` lists the items
\* of the dict in insertion order
RECURSIVE InsertLanguage(_, _)
InsertLanguage(x, sorted) ==
    IF sorted = <<>> THEN <<x>>
    ELSE IF x.bytes > Head(sorted).bytes THEN <<x>> \o sorted
    ELSE <<Head(sorted)>> \o InsertLanguage(x, Tail(sorted))

RECURSIVE SortLanguages(_)
SortLanguages(items) ==
    IF items = <<>> THEN <<>>
    ELSE InsertLanguage(items[Len(items)], SortLanguages(SubSeq(items, 1, Len(items) - 1)))

RECURSIVE SumBytes(_)
SumBytes(items) == IF items = <<>> THEN 0 ELSE Head(items).bytes + SumBytes(Tail(items))

FilesOf(files, cats) ==
    LET idx == SelectIdx(Len(files),
                         {i \in 1..Len(files) : files[i].category \in cats})
    IN  [k \in 1..Len(idx) |-> files[idx[k]]]

SOURCE_HEAD_CHARS == 2000

\* skeleton_map[path]: the text of the last skeleton of that path
SkeletonText(skeletons, path) ==
    skeletons[SetMax({i \in 1..Len(skeletons) : skeletons[i].path = path})].skeleton_text

build_raw_contents(nodes, files, skeletons, ranked, langs) ==
    LET total_bytes == IF SumBytes(langs) = 0 THEN 1 ELSE SumBytes(langs)
        ordered     == SortLanguages(langs)
        lang_lines  == [i \in 1..Len(ordered) |->
                          <<"-", " ">> \o ordered[i].lang \o <<":", " ">>
                          \o FormatPercent(ordered[i].bytes, total_bytes) \o <<"%">>]
        readmes     == FilesOf(files, {"readme"})
        configs     == FilesOf(files, {"config"})
        config_parts == [i \in 1..Len(configs) |->
                          <<"#", "#", "#", " ">> \o configs[i].path \o <<"\n", "\n">> \o configs[i].content]
        scored_paths == {ranked[i].path : i \in 1..Len(ranked)}
        skeleton_paths == {skeletons[i].path : i \in 1..Len(skeletons)}
        scored_idx  == SelectIdx(Len(ranked),
                                 {i \in 1..Len(ranked) : ranked[i].path \in skeleton_paths})
        rest_idx    == SelectIdx(Len(files),
                                 {i \in 1..Len(files) :
                                     /\ files[i].path \notin scored_paths
                                     /\ files[i].category \in {"entry_point", "source"}})
        source_parts ==
            [k \in 1..Len(scored_idx) |->
                <<"#", "#", "#", " ">> \o ranked[scored_idx[k]].path \o <<"\n", "\n">>
                \o SkeletonText(skeletons, ranked[scored_idx[k]].path)]
            \o [k \in 1..Len(rest_idx) |->
                <<"#", "#", "#", " ">> \o files[rest_idx[k]].path \o <<"\n", "\n">>
                \o Take(files[rest_idx[k]].content, SOURCE_HEAD_CHARS)]
        keys == (IF langs # <<>> THEN {"languages"} ELSE {})
                \cup (IF readmes # <<>> THEN {"readme"} ELSE {})
                \cup (IF configs # <<>> THEN {"config"} ELSE {})
                \cup {"tree"}
                \cup (IF source_parts # <<>> THEN {"source"} ELSE {})
    IN  [k \in keys |->
            CASE k = "languages" -> Join(lang_lines, <<"\n">>)
              [] k = "readme"    -> readmes[1].content
              [] k = "config"    -> Join(config_parts, <<"\n", "\n">>)
              [] k = "tree"      -> render_tree(nodes)
              [] k = "source"    -> Join(source_parts, <<"\n", "\n">>)]

\* redaction_count of the result of a key, 0 for a key that is not there
BatchCount(results, k) ==
    IF k \in DOMAIN results THEN results[k].redaction_count ELSE 0

\* the cleaned dict and the total of the redactions, from the result of
\* sanitize for each key
BatchOf(results) ==
    [cleaned |-> [k \in DOMAIN results |-> results[k].clean_text],
     total   |-> BatchCount(results, "languages") + BatchCount(results, "readme")
                 + BatchCount(results, "config") + BatchCount(results, "tree")
                 + BatchCount(results, "source")]

\* sanitize_batch(texts); the keys are slot names
sanitize_batch(texts) == BatchOf([k \in DOMAIN texts |-> sanitize(texts[k])])

\* _needs_multi_pass, were it to count the tokens of the text the source slot
\* holds after truncation in place of those of the raw text
needs_multi_pass_of_slot_content(budget, raw) ==
    LET source_slot == get_slot(budget, "source")
    IN  IF GetText(raw, "source") = <<>> \/ source_slot = <<>> THEN FALSE
        ELSE count_tokens(source_slot[1].content) > source_slot[1].max_tokens * 2

needs_multi_pass(budget, raw) ==
    LET source_slot == get_slot(budget, "source")
        raw_source  == GetText(raw, "source")
    IN  IF raw_source = <<>> \/ source_slot = <<>> THEN FALSE
        ELSE count_tokens(raw_source) > source_slot[1].max_tokens * 2

(***************************************************************************)
(* JSON replies.  json.loads is the standard library's parser: its result  *)
(* is given by the table JSON_TEXTS for the reply texts the checks draw.   *)
(* A value keeps what the code looks at: its type, what str() makes of it, *)
(* its truth value, the items of a list, the members of an object.         *)
(***************************************************************************)
JsonValue(type, text, truthy, items, members) ==
    [type |-> type, text |-> text, truthy |-> truthy, items |-> items,
     members |-> members]

JsonStr(s) == JsonValue("str", s, s # <<>>, <<>>, <<>>)

JsonList(items, text) == JsonValue("list", text, items # <<>>, items, <<>>)

JsonObject(members, text) == JsonValue("dict", text, members # <<>>, <<>>, members)

JsonScalar(type, text, truthy) == JsonValue(type, text, truthy, <<>>, <<>>)

JsonNone == JsonScalar("NoneType", <<"N", "o", "n", "e">>, FALSE)

\* dict.get(key, default): the last member of that key wins
DictGet(obj, key, default) ==
    LET hits == {i \in 1..Len(obj.members) : obj.members[i].key = key}
    IN  IF hits = {} THEN default ELSE obj.members[SetMax(hits)].value

\* docs/a.md, docs/b.md, ...: the files of a repository of many small files
DocPath(i) == <<"d", "o", "c", "s", "/", LOWER[i], ".", "m", "d">>

\* lib/x/a.rs, lib/x/b.rs, ...: the source files of a repository of many
\* source files, and a test file at its root
LibPath(i) == <<"l", "i", "b", "/", "x", "/", LOWER[i], ".", "r", "s">>

ROOT_TEST_PATH == <<"t", "e", "s", "t", "_", "z", ".", "r", "s">>

\* a source file of one line more than the fallback of extract_skeleton keeps,
\* none of them a declaration
LONG_PATH == <<"l", "i", "b", "/", "l", "o", "n", "g", ".", "r", "s">>

LONG_CONTENT == Repeat(<<"f", "(", "\n">>, MAX_FALLBACK_LINES) \o <<"g", "(", "\n">>

\* a README of more tokens than the small budget has: eight lines of seven
\* letters
LONG_README_PATH == <<"R", "E", "A", "D", "M", "E", ".", "r", "s", "t">>

LONG_README == Repeat(<<"a", "b", "c", "d", "e", "f", "g", "\n">>, 8)

\* what fetch_file_content returns for a path, when it returns
REPO_CONTENT ==
    { [path |-> <<"R", "E", "A", "D", "M", "E", ".", "m", "d">>,
       content |-> <<"#", " ", "D", "e", "m", "o", "\n", "p", "a", "s", "s", "w", "o", "r",
                    "d", "=", "h", "u", "n", "t", "e", "r", "2", "h", "u", "n", "t", "e",
                    "r", "2", "\n">>],
      [path |-> <<"s", "e", "t", "u", "p", ".", "p", "y">>,
       content |-> <<"n", "a", "m", "e", " ", "=", " ", "'", "d", "e", "m", "o", "'", "\n">>],
      [path |-> <<"m", "a", "i", "n", ".", "p", "y">>,
       content |-> <<"i", "m", "p", "o", "r", "t", " ", "a", "\n", "\n", "d", "e", "f", " ",
                    "m", "a", "i", "n", "(", ")", ":", "\n", " ", " ", " ", " ", "p", "a",
                    "s", "s", "\n">>],
      [path |-> <<"s", "r", "c", "/", "a", ".", "p", "y">>,
       content |-> <<"K", "E", "Y", " ", "=", " ", "'", "A", "K", "I", "A", "0", "1", "2",
                    "3", "4", "5", "6", "7", "8", "9", "A", "B", "C", "D", "E", "F", "'",
                    "\n", "\n", "d", "e", "f", " ", "f", "(", ")", ":", "\n", " ", " ", " ",
                    " ", "r", "e", "t", "u", "r", "n", " ", "K", "E", "Y", "\n">>],
      [path |-> <<"t", "e", "s", "t", "s", "/", "t", "e", "s", "t", "_", "a", ".", "p", "y">>,
       content |-> <<"d", "e", "f", " ", "t", "e", "s", "t", "_", "f", "(", ":", "\n">>] }
        \cup {[path |-> DocPath(i), content |-> <<"#", " ", LOWER[i], "\n">>] : i \in 1..Len(LOWER)}
        \cup {[path |-> LibPath(i), content |-> <<"f", "n", " ", LOWER[i], "(", ")", " ", "{", "}", "\n">>] : i \in 1..Len(LOWER)}
        \cup {[path |-> ROOT_TEST_PATH, content |-> <<"f", "n", " ", "t", "(", ")", " ", "{", "}", "\n">>]}
        \cup {[path |-> LONG_PATH, content |-> LONG_CONTENT]}
        \cup {[path |-> LONG_README_PATH, content |-> LONG_README]}

ContentOf(path) == (CHOOSE e \in REPO_CONTENT : e.path = path).content

\* x = a.b.b.b ... with 100000 attribute accesses (200 KB, under the size
\* cap of the filter): "DEEP" stands for the run of ".b".  The parser reads
\* it and fails while it builds the tree: RecursionError, "maximum recursion
\* depth exceeded during ast construction".
DEEP_SOURCE == <<"x", " ", "=", " ", "a", "DEEP", "\n">>

\* ast.parse(source) for the Python texts above
PY_MODULES ==
    { [source |-> ContentOf(<<"s", "e", "t", "u", "p", ".", "p", "y">>),
       parsed |-> Module(<<>>, <<Stmt(<<>>)>>)],
      [source |-> ContentOf(<<"m", "a", "i", "n", ".", "p", "y">>),
       parsed |-> Module(<<>>, <<Import(<<<<"a">>>>), FunctionDef(<<"m", "a", "i", "n">>, <<>>, <<>>, <<Stmt(<<>>)>>)>>)],
      [source |-> ContentOf(<<"s", "r", "c", "/", "a", ".", "p", "y">>),
       parsed |-> Module(<<>>, <<Stmt(<<>>), FunctionDef(<<"f">>, <<>>, <<>>, <<Stmt(<<>>)>>)>>)],
      [source |-> ContentOf(<<"t", "e", "s", "t", "s", "/", "t", "e", "s", "t", "_", "a", ".", "p", "y">>),
       parsed |-> ParseRaises("SyntaxError")],
      [source |-> DEEP_SOURCE,
       parsed |-> ParseRaises("RecursionError")] }

ast_parse(source) ==
    IF \E e \in PY_MODULES : e.source = source
    THEN (CHOOSE e \in PY_MODULES : e.source = source).parsed
    ELSE ParseRaises("SyntaxError")

\* the texts llm.complete may return for a file summary and for the final call
FILE_SUMMARY_REPLIES ==
    { <<"{", "\"", "f", "i", "l", "e", "_", "s", "u", "m", "m", "a", "r", "y",
        "\"", ":", " ", "\"", "o", "k", "\"", "}">>,
      <<" ", "n", "/", "a", " ">> }

FINAL_REPLIES ==
    { <<"{", "\"", "s", "u", "m", "m", "a", "r", "y", "\"", ":", " ", "\"", "A",
        " ", "d", "e", "m", "o", ".", "\"", ",", " ", "\"", "t", "e", "c", "h",
        "n", "o", "l", "o", "g", "i", "e", "s", "\"", ":", " ", "[", "\"", "P",
        "y", "t", "h", "o", "n", "\"", "]", ",", " ", "\"", "s", "t", "r", "u",
        "c", "t", "u", "r", "e", "\"", ":", " ", "\"", "f", "l", "a", "t", "\"",
        "}">>,
      <<"o", "o", "p", "s">> }

\* json.loads(text) for the texts that parse; it raises JSONDecodeError on the others
JSON_TEXTS ==
    { [text |-> <<"{", "\"", "f", "i", "l", "e", "_", "s", "u", "m", "m", "a", "r", "y",
                "\"", ":", " ", "\"", "o", "k", "\"", "}">>,
       value |-> JsonObject(<<[key |-> <<"f", "i", "l", "e", "_", "s", "u", "m", "m", "a", "r", "y">>, value |-> JsonStr(<<"o", "k">>)]>>, <<"{", "'", "f", "i", "l", "e", "_", "s", "u", "m", "m", "a", "r", "y", "'", ":", " ", "'", "o", "k", "'", "}">>)],
      [text |-> <<"{", "\"", "s", "u", "m", "m", "a", "r", "y", "\"", ":", " ", "\"", "A",
                " ", "d", "e", "m", "o", ".", "\"", ",", " ", "\"", "t", "e", "c", "h",
                "n", "o", "l", "o", "g", "i", "e", "s", "\"", ":", " ", "[", "\"", "P",
                "y", "t", "h", "o", "n", "\"", "]", ",", " ", "\"", "s", "t", "r", "u",
                "c", "t", "u", "r", "e", "\"", ":", " ", "\"", "f", "l", "a", "t", "\"",
                "}">>,
       value |-> JsonObject(<<[key |-> <<"s", "u", "m", "m", "a", "r", "y">>, value |-> JsonStr(<<"A", " ", "d", "e", "m", "o", ".">>)], [key |-> <<"t", "e", "c", "h", "n", "o", "l", "o", "g", "i", "e", "s">>, value |-> JsonList(<<JsonStr(<<"P", "y", "t", "h", "o", "n">>)>>, <<"[", "'", "P", "y", "t", "h", "o", "n", "'", "]">>)], [key |-> <<"s", "t", "r", "u", "c", "t", "u", "r", "e">>, value |-> JsonStr(<<"f", "l", "a", "t">>)]>>, <<"{", "'", "s", "u", "m", "m", "a", "r", "y", "'", ":", " ", "'", "A", " ", "d", "e", "m", "o", ".", "'", ",", " ", "'", "t", "e", "c", "h", "n", "o", "l", "o", "g", "i", "e", "s", "'", ":", " ", "[", "'", "P", "y", "t", "h", "o", "n", "'", "]", ",", " ", "'", "s", "t", "r", "u", "c", "t", "u", "r", "e", "'", ":", " ", "'", "f", "l", "a", "t", "'", "}">>)] }

\* json.loads(text) for the reply texts of the checks of _parse_llm_response
JSON_REPLY_TEXTS ==
    { [text |-> <<"{", "\"", "s", "u", "m", "m", "a", "r", "y", "\"", ":", " ", "\"", "A",
                "\"", "}">>,
       value |-> JsonObject(<<[key |-> <<"s", "u", "m", "m", "a", "r", "y">>, value |-> JsonStr(<<"A">>)]>>, <<"{", "'", "s", "u", "m", "m", "a", "r", "y", "'", ":", " ", "'", "A", "'", "}">>)],
      [text |-> <<"{", "\"", "s", "u", "m", "m", "a", "r", "y", "\"", ":", " ", "\"", "\"", "}">>,
       value |-> JsonObject(<<[key |-> <<"s", "u", "m", "m", "a", "r", "y">>, value |-> JsonStr(<<>>)]>>, <<"{", "'", "s", "u", "m", "m", "a", "r", "y", "'", ":", " ", "'", "'", "}">>)],
      [text |-> <<"{", "\"", "s", "u", "m", "m", "a", "r", "y", "\"", ":", " ", "5", "}">>,
       value |-> JsonObject(<<[key |-> <<"s", "u", "m", "m", "a", "r", "y">>, value |-> JsonScalar("int", <<"5">>, TRUE)]>>, <<"{", "'", "s", "u", "m", "m", "a", "r", "y", "'", ":", " ", "5", "}">>)],
      [text |-> <<"{", "\"", "s", "u", "m", "m", "a", "r", "y", "\"", ":", " ", "n", "u",
                "l", "l", "}">>,
       value |-> JsonObject(<<[key |-> <<"s", "u", "m", "m", "a", "r", "y">>, value |-> JsonNone]>>, <<"{", "'", "s", "u", "m", "m", "a", "r", "y", "'", ":", " ", "N", "o", "n", "e", "}">>)],
      [text |-> <<"{", "\"", "s", "u", "m", "m", "a", "r", "y", "\"", ":", " ", "[", "\"",
                "A", "\"", "]", "}">>,
       value |-> JsonObject(<<[key |-> <<"s", "u", "m", "m", "a", "r", "y">>, value |-> JsonList(<<JsonStr(<<"A">>)>>, <<"[", "'", "A", "'", "]">>)]>>, <<"{", "'", "s", "u", "m", "m", "a", "r", "y", "'", ":", " ", "[", "'", "A", "'", "]", "}">>)],
      [text |-> <<"{", "}">>,
       value |-> JsonObject(<<>>, <<"{", "}">>)],
      [text |-> <<"{", "\"", "t", "e", "c", "h", "n", "o", "l", "o", "g", "i", "e", "s",
                "\"", ":", " ", "[", "\"", "x", "\"", "]", ",", " ", "\"", "s", "t", "r",
                "u", "c", "t", "u", "r", "e", "\"", ":", " ", "\"", "s", "\"", "}">>,
       value |-> JsonObject(<<[key |-> <<"t", "e", "c", "h", "n", "o", "l", "o", "g", "i", "e", "s">>, value |-> JsonList(<<JsonStr(<<"x">>)>>, <<"[", "'", "x", "'", "]">>)], [key |-> <<"s", "t", "r", "u", "c", "t", "u", "r", "e">>, value |-> JsonStr(<<"s">>)]>>, <<"{", "'", "t", "e", "c", "h", "n", "o", "l", "o", "g", "i", "e", "s", "'", ":", " ", "[", "'", "x", "'", "]", ",", " ", "'", "s", "t", "r", "u", "c", "t", "u", "r", "e", "'", ":", " ", "'", "s", "'", "}">>)],
      [text |-> <<"{", "\"", "s", "u", "m", "m", "a", "r", "y", "\"", ":", " ", "\"", "A",
                "\"", ",", " ", "\"", "t", "e", "c", "h", "n", "o", "l", "o", "g", "i",
                "e", "s", "\"", ":", " ", "\"", "P", "y", "t", "h", "o", "n", "\"", ",",
                " ", "\"", "s", "t", "r", "u", "c", "t", "u", "r", "e", "\"", ":", " ",
                "7", "}">>,
       value |-> JsonObject(<<[key |-> <<"s", "u", "m", "m", "a", "r", "y">>, value |-> JsonStr(<<"A">>)], [key |-> <<"t", "e", "c", "h", "n", "o", "l", "o", "g", "i", "e", "s">>, value |-> JsonStr(<<"P", "y", "t", "h", "o", "n">>)], [key |-> <<"s", "t", "r", "u", "c", "t", "u", "r", "e">>, value |-> JsonScalar("int", <<"7">>, TRUE)]>>, <<"{", "'", "s", "u", "m", "m", "a", "r", "y", "'", ":", " ", "'", "A", "'", ",", " ", "'", "t", "e", "c", "h", "n", "o", "l", "o", "g", "i", "e", "s", "'", ":", " ", "'", "P", "y", "t", "h", "o", "n", "'", ",", " ", "'", "s", "t", "r", "u", "c", "t", "u", "r", "e", "'", ":", " ", "7", "}">>)],
      [text |-> <<"{", "\"", "s", "u", "m", "m", "a", "r", "y", "\"", ":", " ", "\"", "A",
                "\"", ",", " ", "\"", "t", "e", "c", "h", "n", "o", "l", "o", "g", "i",
                "e", "s", "\"", ":", " ", "[", "\"", "P", "y", "\"", ",", " ", "\"", "\"",
                ",", " ", "0", ",", " ", "3", ",", " ", "n", "u", "l", "l", ",", " ",
                "{", "\"", "a", "\"", ":", " ", "1", "}", "]", ",", " ", "\"", "s", "t",
                "r", "u", "c", "t", "u", "r", "e", "\"", ":", " ", "n", "u", "l", "l",
                "}">>,
       value |-> JsonObject(<<[key |-> <<"s", "u", "m", "m", "a", "r", "y">>, value |-> JsonStr(<<"A">>)], [key |-> <<"t", "e", "c", "h", "n", "o", "l", "o", "g", "i", "e", "s">>, value |-> JsonList(<<JsonStr(<<"P", "y">>), JsonStr(<<>>), JsonScalar("int", <<"0">>, FALSE), JsonScalar("int", <<"3">>, TRUE), JsonNone, JsonObject(<<[key |-> <<"a">>, value |-> JsonScalar("int", <<"1">>, TRUE)]>>, <<"{", "'", "a", "'", ":", " ", "1", "}">>)>>, <<"[", "'", "P", "y", "'", ",", " ", "'", "'", ",", " ", "0", ",", " ", "3", ",", " ", "N", "o", "n", "e", ",", " ", "{", "'", "a", "'", ":", " ", "1", "}", "]">>)], [key |-> <<"s", "t", "r", "u", "c", "t", "u", "r", "e">>, value |-> JsonNone]>>, <<"{", "'", "s", "u", "m", "m", "a", "r", "y", "'", ":", " ", "'", "A", "'", ",", " ", "'", "t", "e", "c", "h", "n", "o", "l", "o", "g", "i", "e", "s", "'", ":", " ", "[", "'", "P", "y", "'", ",", " ", "'", "'", ",", " ", "0", ",", " ", "3", ",", " ", "N", "o", "n", "e", ",", " ", "{", "'", "a", "'", ":", " ", "1", "}", "]", ",", " ", "'", "s", "t", "r", "u", "c", "t", "u", "r", "e", "'", ":", " ", "N", "o", "n", "e", "}">>)],
      [text |-> <<"{", "\"", "s", "u", "m", "m", "a", "r", "y", "\"", ":", " ", "\"", "A",
                "\"", ",", " ", "\"", "s", "u", "m", "m", "a", "r", "y", "\"", ":", " ",
                "\"", "\"", "}">>,
       value |-> JsonObject(<<[key |-> <<"s", "u", "m", "m", "a", "r", "y">>, value |-> JsonStr(<<>>)]>>, <<"{", "'", "s", "u", "m", "m", "a", "r", "y", "'", ":", " ", "'", "'", "}">>)],
      [text |-> <<"{", "\"", "S", "u", "m", "m", "a", "r", "y", "\"", ":", " ", "\"", "A",
                "\"", "}">>,
       value |-> JsonObject(<<[key |-> <<"S", "u", "m", "m", "a", "r", "y">>, value |-> JsonStr(<<"A">>)]>>, <<"{", "'", "S", "u", "m", "m", "a", "r", "y", "'", ":", " ", "'", "A", "'", "}">>)],
      [text |-> <<"[", "]">>,
       value |-> JsonList(<<>>, <<"[", "]">>)],
      [text |-> <<"[", "\"", "s", "u", "m", "m", "a", "r", "y", "\"", "]">>,
       value |-> JsonList(<<JsonStr(<<"s", "u", "m", "m", "a", "r", "y">>)>>, <<"[", "'", "s", "u", "m", "m", "a", "r", "y", "'", "]">>)],
      [text |-> <<"\"", "A", " ", "d", "e", "m", "o", ".", "\"">>,
       value |-> JsonStr(<<"A", " ", "d", "e", "m", "o", ".">>)],
      [text |-> <<"5">>,
       value |-> JsonScalar("int", <<"5">>, TRUE)],
      [text |-> <<"n", "u", "l", "l">>,
       value |-> JsonNone] }

json_loads(text) ==
    IF \E e \in JSON_TEXTS \cup JSON_REPLY_TEXTS : e.text = text
    THEN [raises |-> FALSE,
          value  |-> (CHOOSE e \in JSON_TEXTS \cup JSON_REPLY_TEXTS : e.text = text).value]
    ELSE [raises |-> TRUE, value |-> JsonNone]

SummaryResult(summary, technologies, structure) ==
    [summary |-> summary, technologies |-> technologies, structure |-> structure]

\* text[first_nl + 1:] with its closing fence taken off
Unfenced(inner) ==
    IF EndsWith(inner, <<"U0060", "U0060", "U0060">>) THEN SubSeq(inner, 1, Len(inner) - 3) ELSE inner

\* the text of a reply once the code fence around it is taken off;
\* text = raw.strip()
StripFenceOf(text) ==
    IF StartsWithAt(text, 1, <<"U0060", "U0060", "U0060">>)
    THEN Strip(Unfenced(SubSeq(text,
                   (IF Contains(text, <<"\n">>) THEN FindFrom(text, <<"\n">>, 1) - 1 ELSE 3) + 2,
                   Len(text))))
    ELSE text

StripFence(raw) == StripFenceOf(Strip(raw))

\* [str(t) for t in technologies if t]
TechnologyTexts(items) ==
    [k \in 1..Cardinality({i \in 1..Len(items) : items[i].truthy}) |->
        items[SelectIdx(Len(items), {i \in 1..Len(items) : items[i].truthy})[k]].text]

ParseFailure(exc) == [raises |-> exc, value |-> SummaryResult(<<>>, <<>>, <<>>)]

\* _parse_llm_response from the three members of the object on
ParseMembers(summary, technologies, structure) ==
    IF summary.type # "str" \/ summary.text = <<>>
    THEN ParseFailure("LlmError")
    ELSE [raises |-> "",
          value  |-> SummaryResult(
                         summary.text,
                         TechnologyTexts(IF technologies.type = "list"
                                         THEN technologies.items ELSE <<>>),
                         IF structure.type = "str" THEN structure.text ELSE <<>>)]

\* _parse_llm_response from the result of json.loads on; a value that is no
\* object has no get
ParseLoaded(loaded) ==
    IF loaded.raises THEN ParseFailure("LlmError")
    ELSE IF loaded.value.type # "dict" THEN ParseFailure("AttributeError")
    ELSE ParseMembers(DictGet(loaded.value, <<"s", "u", "m", "m", "a", "r", "y">>, JsonNone),
                      DictGet(loaded.value, <<"t", "e", "c", "h", "n", "o", "l", "o", "g", "i", "e", "s">>, JsonNone),
                      DictGet(loaded.value, <<"s", "t", "r", "u", "c", "t", "u", "r", "e">>, JsonNone))

\* _parse_llm_response(raw): the exception it raises ("" if none) and its result
parse_llm_response(raw) == ParseLoaded(json_loads(StripFence(raw)))

\* the summary text taken from the reply of a secondary call, loaded being
\* what json.loads gives for it; raises is TRUE when the reply is JSON but
\* no object (it has no get)
FileSummaryOf(raw_summary, loaded) ==
    IF loaded.raises THEN [raises |-> FALSE, text |-> Strip(raw_summary)]
    ELSE IF loaded.value.type # "dict" THEN [raises |-> TRUE, text |-> <<>>]
    ELSE [raises |-> FALSE,
          text   |-> DictGet(loaded.value, <<"f", "i", "l", "e", "_", "s", "u", "m", "m", "a", "r", "y">>, JsonStr(raw_summary)).text]

file_summary_text(raw_summary) == FileSummaryOf(raw_summary, json_loads(raw_summary))

FETCH_CONCURRENCY == 10

TOP_SCORED_FILES == 8

SUMMARY_HEAD_CHARS == 3000

\* the user prompt of the secondary call for file f
FileSummaryPrompt(f) ==
    <<"F", "i", "l", "e", ":", " ">> \o f.path \o <<"\n", "\n">> \o Take(f.content, SUMMARY_HEAD_CHARS)

LlmCall(system, user) == [system |-> system, user |-> user]

\* slot.content if slot else ""
SlotContent(slot) == IF slot # <<>> THEN slot[1].content ELSE <<>>

\* pass 2 of _multi_pass_summarise: the second allocation
Pass2Budget(first, summaries, max_tokens) ==
    allocate([k \in {"readme", "config", "tree", "source"} |->
                 IF k = "source" THEN Join(summaries, <<"\n", "\n">>)
                 ELSE SlotContent(get_slot(first, k))],
             max_tokens)

(***************************************************************************)
(* summarize_repo.py: SummarizeRepoUseCase.execute as a state machine.     *)
(* A step runs from one await to the next; the fetcher and the LLM gateway *)
(* are the environment and answer or raise as they like.  The steps that   *)
(* execute numbers in its comments are operators that take what the steps  *)
(* before them computed.                                                   *)
(***************************************************************************)
Raise(exc) == pc' = "raised" /\ raised' = exc

METADATA_ERRORS == {"RepositoryNotFoundError", "GitHubRateLimitError"}

TREE_ERRORS == {"RepositoryAccessDeniedError"}

\* await fetch_metadata(url)
FetchMetadata ==
    /\ call.op = "execute"
    /\ pc = "fetch_metadata"
    /\ \E outcome \in {"ok"} \cup METADATA_ERRORS :
          IF outcome = "ok" THEN pc' = "fetch_tree" /\ raised' = raised
          ELSE Raise(outcome)
    /\ UNCHANGED <<evars, call, ret, tree, languages, files_to_fetch, fetch_state,
                   fetch_calls, repo_files, scored, raw_contents, budgeted, mode,
                   top_sources, attempted, file_summaries, pass2_budget, llm_calls>>

\* step 3 and the start of step 4: the tasks of _fetch_files are created
StartFetching(selected) ==
    /\ pc' = "fetch_files"
    /\ raised' = raised
    /\ files_to_fetch' = selected
    /\ fetch_state' = [i \in 1..Len(selected) |-> "pending"]

\* step 2, were execute to look at the tree only and not at what the
\* filter leaves of it
AfterClassifyTreeOnly(nodes, classified, max_files) ==
    IF nodes = <<>>
    THEN /\ Raise("EmptyRepositoryError")
         /\ UNCHANGED <<files_to_fetch, fetch_state>>
    ELSE StartFetching(select_files_to_fetch(classified, max_files))

\* step 2, from the result of filter_and_classify on
AfterClassify(nodes, classified, max_files) ==
    IF nodes = <<>> \/ classified = <<>>
    THEN /\ Raise("EmptyRepositoryError")
         /\ UNCHANGED <<files_to_fetch, fetch_state>>
    ELSE StartFetching(select_files_to_fetch(classified, max_files))

\* await gather(fetch_tree, fetch_languages), then steps 2 and 3 up to the
\* gather of _fetch_files
FetchTreeAndLanguages ==
    /\ call.op = "execute"
    /\ pc = "fetch_tree"
    /\ \/ /\ \E exc \in TREE_ERRORS : Raise(exc)
          /\ UNCHANGED <<tree, languages, files_to_fetch, fetch_state>>
       \/ /\ tree' = <<call.tree>>
          /\ languages' = call.languages
          /\ AfterClassify(call.tree,
                           filter_and_classify(call.tree, call.max_file_size_kb),
                           call.max_files_to_fetch)
    /\ UNCHANGED <<evars, call, ret, fetch_calls, repo_files, scored, raw_contents,
                   budgeted, mode, top_sources, attempted, file_summaries,
                   pass2_budget, llm_calls>>

InFlight == {i \in 1..Len(fetch_state) : fetch_state[i] = "in_flight"}

\* _fetch_one(i), were there no semaphore: fetch_file_content is called as
\* soon as the task runs
FetchStartUnbounded(i) ==
    /\ call.op = "execute"
    /\ pc = "fetch_files"
    /\ fetch_state[i] = "pending"
    /\ \A j \in 1..(i - 1) : fetch_state[j] # "pending"
    /\ fetch_state' = [fetch_state EXCEPT ![i] = "in_flight"]
    /\ fetch_calls' = Append(fetch_calls, files_to_fetch[i].node.path)
    /\ UNCHANGED <<evars, call, ret, pc, raised, tree, languages, files_to_fetch,
                   repo_files, scored, raw_contents, budgeted, mode, top_sources,
                   attempted, file_summaries, pass2_budget, llm_calls>>

\* _fetch_one(i) enters the semaphore and calls fetch_file_content; the tasks
\* run, and wait for the semaphore, in the order of the list
FetchStart(i) ==
    /\ call.op = "execute"
    /\ pc = "fetch_files"
    /\ fetch_state[i] = "pending"
    /\ \A j \in 1..(i - 1) : fetch_state[j] # "pending"
    /\ Cardinality(InFlight) < FETCH_CONCURRENCY
    /\ fetch_state' = [fetch_state EXCEPT ![i] = "in_flight"]
    /\ fetch_calls' = Append(fetch_calls, files_to_fetch[i].node.path)
    /\ UNCHANGED <<evars, call, ret, pc, raised, tree, languages, files_to_fetch,
                   repo_files, scored, raw_contents, budgeted, mode, top_sources,
                   attempted, file_summaries, pass2_budget, llm_calls>>

\* fetch_file_content of file i returns or raises; _fetch_one leaves the
\* semaphore with a RepoFile or with None
FetchDone(i) ==
    /\ call.op = "execute"
    /\ pc = "fetch_files"
    /\ fetch_state[i] = "in_flight"
    /\ \E outcome \in {"ok", "failed"} :
          fetch_state' = [fetch_state EXCEPT ![i] = outcome]
    /\ UNCHANGED <<evars, call, ret, pc, raised, tree, languages, files_to_fetch,
                   fetch_calls, repo_files, scored, raw_contents, budgeted, mode,
                   top_sources, attempted, file_summaries, pass2_budget, llm_calls>>

\* {f.path: f.<field> for f in files}
MapOf(files, field) ==
    [p \in {files[i].path : i \in 1..Len(files)} |->
        files[SetMax({i \in 1..Len(files) : files[i].path = p})][field]]

\* the result of the gather, were a failed fetch kept as a file of no content
FetchedFilesWithFailed(selected, states) ==
    [k \in 1..Len(selected) |->
        RepoFile(selected[k].node,
                 IF states[k] = "ok" THEN ContentOf(selected[k].node.path) ELSE <<>>,
                 selected[k].category)]

\* the result of the gather, were the files that were fetched listed last
\* first
FetchedFilesReversed(selected, states) ==
    [k \in 1..Cardinality({i \in 1..Len(selected) : states[i] = "ok"}) |->
        RepoFile(selected[SelectIdx(Len(selected),
                     {i \in 1..Len(selected) : states[i] = "ok"})[
                         Cardinality({i \in 1..Len(selected) : states[i] = "ok"}) + 1 - k]].node,
                 ContentOf(selected[SelectIdx(Len(selected),
                     {i \in 1..Len(selected) : states[i] = "ok"})[
                         Cardinality({i \in 1..Len(selected) : states[i] = "ok"}) + 1 - k]].node.path),
                 selected[SelectIdx(Len(selected),
                     {i \in 1..Len(selected) : states[i] = "ok"})[
                         Cardinality({i \in 1..Len(selected) : states[i] = "ok"}) + 1 - k]].category)]

\* [r for r in results if r is not None]: the files whose fetch returned,
\* in the order of the list
FetchedFiles(selected, states) ==
    [k \in 1..Cardinality({i \in 1..Len(selected) : states[i] = "ok"}) |->
        RepoFile(selected[SelectIdx(Len(selected),
                                    {i \in 1..Len(selected) : states[i] = "ok"})[k]].node,
                 ContentOf(selected[SelectIdx(Len(selected),
                                    {i \in 1..Len(selected) : states[i] = "ok"})[k]].node.path),
                 selected[SelectIdx(Len(selected),
                                    {i \in 1..Len(selected) : states[i] = "ok"})[k]].category)]

\* step 5: the skeletons of the code files
SkeletonsOf(code_files) ==
    [k \in 1..Len(code_files) |->
        extract_skeleton(code_files[k].path, code_files[k].content,
                         ast_parse(code_files[k].content))]

\* _multi_pass_summarise: top_sources
TopSources(source_files, ranked) ==
    [k \in 1..Cardinality({i \in 1..Len(source_files) :
                             \E j \in 1..Min(TOP_SCORED_FILES, Len(ranked)) :
                                ranked[j].path = source_files[i].path}) |->
        source_files[SelectIdx(Len(source_files),
                        {i \in 1..Len(source_files) :
                            \E j \in 1..Min(TOP_SCORED_FILES, Len(ranked)) :
                               ranked[j].path = source_files[i].path})[k]]]

\* _call_llm_for_summary, were it to call llm.complete a second time
CallForSummaryTwice(budget) ==
    /\ pc' = "generate"
    /\ llm_calls' = Append(Append(llm_calls, LlmCall("SYSTEM_PROMPT", assemble(budget))),
                           LlmCall("SYSTEM_PROMPT", assemble(budget)))

\* _call_llm_for_summary(assemble(budget)) up to its await
CallForSummary(budget) ==
    /\ pc' = "generate"
    /\ llm_calls' = Append(llm_calls, LlmCall("SYSTEM_PROMPT", assemble(budget)))

\* _multi_pass_summarise with no file to summarise: pass 2 at once
Pass2AndCall(second) ==
    /\ pass2_budget' = <<second>>
    /\ CallForSummary(second)

\* step 10: single pass, or the first secondary call of the multi-pass, or
\* pass 2 when there is no top source file
Summarise(first, multi, tops, max_tokens) ==
    /\ mode' = IF multi THEN "multi" ELSE "single"
    /\ top_sources' = IF multi THEN tops ELSE <<>>
    /\ IF ~multi
       THEN /\ pass2_budget' = <<>>
            /\ CallForSummary(first)
       ELSE IF tops = <<>>
       THEN Pass2AndCall(Pass2Budget(first, <<>>, max_tokens))
       ELSE /\ pc' = "summarise_files"
            /\ pass2_budget' = <<>>
            /\ llm_calls' = Append(llm_calls,
                   LlmCall("FILE_SUMMARY_SYSTEM_PROMPT", FileSummaryPrompt(tops[1])))

\* step 9 done: budgeted is the first allocation
AfterAllocate(files, ranked, raw, first, max_tokens) ==
    /\ budgeted' = <<first>>
    /\ Summarise(first, needs_multi_pass(first, raw),
                 TopSources(FilesOf(files, {"source", "entry_point"}), ranked),
                 max_tokens)

\* steps 8 and 9, from the raw contents of step 7
AfterRawContents(files, ranked, raw, max_tokens) ==
    /\ raw_contents' = raw
    /\ AfterAllocate(files, ranked, raw,
                     allocate(sanitize_batch(raw).cleaned, max_tokens), max_tokens)

\* step 7, from the scored files of step 6
AfterScoring(nodes, files, skeletons, ranked, langs, max_tokens) ==
    /\ scored' = ranked
    /\ AfterRawContents(files, ranked,
                        build_raw_contents(nodes, files, skeletons, ranked, langs),
                        max_tokens)

\* step 6, from the skeletons of step 5; a skeleton that raises ends execute
AfterSkeletons(nodes, files, skeletons, langs, max_tokens) ==
    IF \E k \in 1..Len(skeletons) : skeletons[k].raises # ""
    THEN /\ Raise(skeletons[FirstOf({k \in 1..Len(skeletons) : skeletons[k].raises # ""},
                                    0)].raises)
         /\ UNCHANGED <<scored, raw_contents, budgeted, mode, top_sources,
                        pass2_budget, llm_calls>>
    ELSE /\ raised' = raised
         /\ \E centrality \in CentralityChoices(skeletons) :
               AfterScoring(nodes, files, skeletons,
                            IF skeletons # <<>>
                            THEN score_files(skeletons, MapOf(files, "category"),
                                             MapOf(files, "size_bytes"), centrality)
                            ELSE <<>>,
                            langs, max_tokens)

\* step 5, from the files of step 4
AfterFetch(nodes, files, langs, max_tokens) ==
    /\ repo_files' = files
    /\ AfterSkeletons(nodes, files,
                      SkeletonsOf(FilesOf(files, {"source", "entry_point", "test"})),
                      langs, max_tokens)

\* the gather of _fetch_files returns; steps 5 to 10 of execute, up to the
\* first call of llm.complete
GatherFiles ==
    /\ call.op = "execute"
    /\ pc = "fetch_files"
    /\ \A i \in 1..Len(fetch_state) : fetch_state[i] \in {"ok", "failed"}
    /\ AfterFetch(tree[1], FetchedFiles(files_to_fetch, fetch_state), languages,
                  call.max_context_tokens)
    /\ UNCHANGED <<evars, call, ret, tree, languages, files_to_fetch, fetch_state,
                   fetch_calls, attempted, file_summaries>>

\* the loop of pass 1, were a call that added no summary to end it
AfterFileSummaryAborting(summaries, max_tokens) ==
    /\ attempted' = attempted + 1
    /\ file_summaries' = summaries
    /\ IF attempted + 1 = Len(top_sources) \/ summaries = file_summaries
       THEN Pass2AndCall(Pass2Budget(budgeted[1], summaries, max_tokens))
       ELSE /\ pc' = pc
            /\ pass2_budget' = pass2_budget
            /\ llm_calls' = Append(llm_calls,
                   LlmCall("FILE_SUMMARY_SYSTEM_PROMPT",
                           FileSummaryPrompt(top_sources[attempted + 2])))

\* the loop of pass 1 after the call for file `attempted + 1`: on to the next
\* file, or to pass 2 and the final call
AfterFileSummary(summaries, max_tokens) ==
    /\ attempted' = attempted + 1
    /\ file_summaries' = summaries
    /\ IF attempted + 1 = Len(top_sources)
       THEN Pass2AndCall(Pass2Budget(budgeted[1], summaries, max_tokens))
       ELSE /\ pc' = pc
            /\ pass2_budget' = pass2_budget
            /\ llm_calls' = Append(llm_calls,
                   LlmCall("FILE_SUMMARY_SYSTEM_PROMPT",
                           FileSummaryPrompt(top_sources[attempted + 2])))

\* file_summaries after the reply for file f was looked at; a reply that
\* raised, or whose handling raises, adds nothing
SummariesWith(f, parsed) ==
    IF parsed.raises THEN file_summaries
    ELSE Append(file_summaries,
                <<"*", "*">> \o f.path \o <<"*", "*", ":", " ">> \o parsed.text)

\* the secondary call in flight returns (reply = <<text>>) or raises
\* (reply = <<>>)
FileSummaryReply ==
    /\ call.op = "execute"
    /\ pc = "summarise_files"
    /\ \E reply \in {<<>>} \cup {<<r>> : r \in FILE_SUMMARY_REPLIES} :
          AfterFileSummary(
              SummariesWith(top_sources[attempted + 1],
                            IF reply = <<>> THEN [raises |-> TRUE, text |-> <<>>]
                            ELSE file_summary_text(reply[1])),
              call.max_context_tokens)
    /\ UNCHANGED <<evars, call, ret, raised, tree, languages, files_to_fetch, fetch_state,
                   fetch_calls, repo_files, scored, raw_contents, budgeted, mode,
                   top_sources>>

\* execute ends with what _parse_llm_response did
Finish(parsed) ==
    IF parsed.raises # "" THEN Raise(parsed.raises) /\ ret' = ret
    ELSE pc' = "returned" /\ raised' = raised /\ ret' = <<parsed.value>>

\* the final call returns (reply = <<text>>) or raises LlmError (reply = <<>>)
FinalReply ==
    /\ call.op = "execute"
    /\ pc = "generate"
    /\ \E reply \in {<<>>} \cup {<<r>> : r \in FINAL_REPLIES} :
          Finish(IF reply = <<>> THEN ParseFailure("LlmError")
                 ELSE parse_llm_response(reply[1]))
    /\ UNCHANGED <<evars, call, tree, languages, files_to_fetch, fetch_state, fetch_calls,
                   repo_files, scored, raw_contents, budgeted, mode, top_sources,
                   attempted, file_summaries, pass2_budget, llm_calls>>

Next ==
    \/ FetchMetadata
    \/ FetchTreeAndLanguages
    \/ \E i \in 1..Len(fetch_state) : FetchStart(i)
    \/ \E i \in 1..Len(fetch_state) : FetchDone(i)
    \/ GatherFiles
    \/ FileSummaryReply
    \/ FinalReply

(***************************************************************************)
(* Checks of truncate_to_budget and allocate: the arguments are drawn in   *)
(* the initial state and one action applies the function.                  *)
(***************************************************************************)
MaxLines == 2

MaxTokens == 14

\* k lines of w letters, each ended by a line feed
LinesText(k, w) == Repeat(Repeat(<<"a">>, w) \o <<"\n">>, k)

BudgetTexts == {<<>>, <<"a">>} \cup {LinesText(k, 7) : k \in 1..MaxLines}

TruncateTexts ==
    BudgetTexts \cup {LinesText(k, w) : k \in 1..(MaxLines + 1), w \in {1, 3}}

Budgets == {0, 1, 9, 10, 20, 40, 100}

TruncateInit ==
    /\ call \in [op : {"truncate_to_budget"}, text : TruncateTexts,
                 max_tokens : 0..MaxTokens]
    /\ ret = <<>>
    /\ PipelineIdle
    /\ NoThreads

Truncate ==
    /\ call.op = "truncate_to_budget"
    /\ ret = <<>>
    /\ ret' = <<truncate_to_budget(call.text, call.max_tokens)>>
    /\ UNCHANGED <<call, pvars, evars>>

SpecTruncate == TruncateInit /\ [][Truncate]_vars

AllocateInit ==
    /\ call \in [op : {"allocate"}, contents : [SlotNames -> BudgetTexts],
                 total_budget : Budgets]
    /\ ret = <<>>
    /\ PipelineIdle
    /\ NoThreads

Allocate ==
    /\ call.op = "allocate"
    /\ ret = <<>>
    /\ ret' = <<allocate(call.contents, call.total_budget)>>
    /\ UNCHANGED <<call, pvars, evars>>

SpecAllocate == AllocateInit /\ [][Allocate]_vars

Returned(op) == call.op = op /\ ret # <<>>

\* C4: for every text t and every n >= 0 the token count of
\* truncate_to_budget(t, n) is at most n.
C4_TruncateWithinBudget ==
    Returned("truncate_to_budget") => count_tokens(ret[1]) <= call.max_tokens

\* C1: the BudgetedContent returned by allocate satisfies
\* total_tokens <= budget_limit, total_tokens being the token count of the
\* content stored in the slots.
C1_TotalWithinBudget ==
    Returned("allocate") =>
        /\ ret[1].total_tokens <= ret[1].budget_limit
        /\ SumUsed([i \in 1..Len(ret[1].slots) |->
               [used_tokens |-> count_tokens(ret[1].slots[i].content)]])
             <= ret[1].budget_limit

\* C3: every slot of the BudgetedContent returned by allocate satisfies
\* 0 <= used_tokens <= max_tokens.
C3_SlotWithinCap ==
    Returned("allocate") =>
        \A i \in 1..Len(ret[1].slots) :
            /\ 0 <= ret[1].slots[i].used_tokens
            /\ ret[1].slots[i].used_tokens <= ret[1].slots[i].max_tokens

\* C5: every slot is sized with an effective cap (max_tokens) of at least its
\* own target share int(usable * proportion), whatever the earlier slots hold.
C5_CapAtLeastShare ==
    Returned("allocate") =>
        LET usable == call.total_budget - Share(call.total_budget, 5)
        IN  \A i \in 1..Len(ret[1].slots) :
                ret[1].slots[i].max_tokens >= Share(usable, SLOT_PROPORTIONS[i].pct)

(***************************************************************************)
(* Checks of sanitize: the text is a concatenation of fragments; sanitize  *)
(* is applied to it, and then to its own clean_text.                       *)
(***************************************************************************)
MaxFragments == 3

SecretFragments ==
    { <<"p", "a", "s", "s", "w", "o", "r", "d", "=">>,
      <<"B", "e", "a", "r", "e", "r", ":", " ", "B", "e", "a", "r", "e", "r", " ">>,
      <<"a", "a", "a", "a", "a", "a", "a", "a", "a", "a", "a", "a", "a", "a", "a", "a", "a", "a", "a", "a">>,
      <<"A", "K", "I", "A", "0", "1", "2", "3", "4", "5", "6", "7", "8", "9", "A", "B", "C", "D", "E", "F">>,
      <<" ">>,
      <<"p", "o", "s", "t", "g", "r", "e", "s", ":", "/", "/">> }

RECURSIVE FragmentTexts(_)
FragmentTexts(k) ==
    IF k = 0 THEN {<<>>}
    ELSE LET shorter == FragmentTexts(k - 1)
         IN  shorter \cup {t \o f : t \in shorter, f \in SecretFragments}

SanitizeInit ==
    /\ call \in [op : {"sanitize"}, text : FragmentTexts(MaxFragments)]
    /\ ret = <<>>
    /\ PipelineIdle
    /\ NoThreads

Sanitize ==
    /\ call.op = "sanitize"
    /\ ret = <<>>
    /\ ret' = <<sanitize(call.text)>>
    /\ UNCHANGED <<call, pvars, evars>>

SanitizeAgain ==
    /\ call.op = "sanitize"
    /\ Len(ret) = 1
    /\ ret' = Append(ret, sanitize(ret[1].clean_text))
    /\ UNCHANGED <<call, pvars, evars>>

SpecSanitize == SanitizeInit /\ [][Sanitize \/ SanitizeAgain]_vars

\* C6: redaction is idempotent: sanitize applied to sanitize(x).clean_text
\* performs zero redactions and returns the text unchanged.
C6_SanitizeIdempotent ==
    (call.op = "sanitize" /\ Len(ret) = 2) =>
        /\ ret[2].redaction_count = 0
        /\ ret[2].clean_text = ret[1].clean_text

(***************************************************************************)
(* Checks of score_files: the skeletons, the category map and the size map *)
(* are drawn in the initial state.                                         *)
(***************************************************************************)
MaxSkeletons == 3

ScorePaths == { <<"b", ".", "p", "y">>, <<"a", ".", "p", "y">>, <<"l", "i", "b", "/", "c", ".", "p", "y">>, <<"m", "a", "i", "n", ".", "p", "y">> }

ScoreImports == { <<>>, <<<<"a", ".", "u", "t", "i", "l">>>> }

RECURSIVE SkeletonLists(_)
SkeletonLists(k) ==
    IF k = 0 THEN {<<>>}
    ELSE LET shorter == SkeletonLists(k - 1)
         IN  shorter \cup
             {Append(l, [path |-> p, imports |-> m]) :
                 l \in {x \in shorter : Len(x) = k - 1}, p \in ScorePaths, m \in ScoreImports}

DistinctPaths(l) == \A i, j \in 1..Len(l) : i # j => l[i].path # l[j].path

CategoryMaps ==
    { <<>>,
      [p \in ScorePaths |-> "source"],
      [p \in ScorePaths |-> IF p = <<"b", ".", "p", "y">> THEN "test" ELSE "source"] }

SizeMaps ==
    { <<>>,
      [p \in ScorePaths |-> 5120],
      [p \in ScorePaths |-> IF p = <<"a", ".", "p", "y">> THEN 512 ELSE 51200] }

ScoreInit ==
    /\ call \in [op : {"score_files"},
                 skeletons : {l \in SkeletonLists(MaxSkeletons) : DistinctPaths(l)},
                 categories : CategoryMaps, sizes : SizeMaps]
    /\ ret = <<>>
    /\ PipelineIdle
    /\ NoThreads

ScoreFiles ==
    /\ call.op = "score_files"
    /\ ret = <<>>
    /\ \E centrality \in CentralityChoices(call.skeletons) :
          ret' = <<score_files(call.skeletons, call.categories, call.sizes, centrality)>>
    /\ UNCHANGED <<call, pvars, evars>>

SpecScore == ScoreInit /\ [][ScoreFiles]_vars

\* C8: score_files returns its files totally ordered: by composite score
\* descending, and two files of equal composite score in lexicographic order
\* of their paths, whatever the order the skeletons were passed in.
C8_ScoreThenPathOrder ==
    Returned("score_files") =>
        \A i, j \in 1..Len(ret[1]) :
            i < j =>
                \/ ret[1][i].score > ret[1][j].score
                \/ /\ ret[1][i].score = ret[1][j].score
                   /\ StrLess(ret[1][i].path, ret[1][j].path)

(***************************************************************************)
(* Checks of execute: the repository (tree, languages) and the settings of *)
(* the use case are drawn in the initial state.                            *)
(***************************************************************************)
FileNode(path, type, size) == [path |-> path, type |-> type, size |-> size]

\* a blob of the repository, its size that of its content
Blob(path) == FileNode(path, "blob", Len(ContentOf(path)))

SRC_DIR == FileNode(<<"s", "r", "c">>, "tree", 0)

PNG_BLOB == FileNode(<<"a", "s", "s", "e", "t", "s", "/", "x", ".", "p", "n", "g">>, "blob", 500 * 1024)

ENV_BLOB == FileNode(<<".", "e", "n", "v">>, "blob", 20)

\* what fetch_tree and fetch_languages return for the repositories of the checks
LANGUAGE_ITEMS ==
    <<[lang |-> <<"S", "h", "e", "l", "l">>, bytes |-> 1],
      [lang |-> <<"P", "y", "t", "h", "o", "n">>, bytes |-> 3]>>

Repositories ==
    { [tree |-> <<>>,
       languages |-> <<>>],
      [tree |-> <<SRC_DIR>>,
       languages |-> <<>>],
      [tree |-> <<SRC_DIR, PNG_BLOB, ENV_BLOB>>,
       languages |-> LANGUAGE_ITEMS],
      [tree |-> <<Blob(<<"R", "E", "A", "D", "M", "E", ".", "m", "d">>)>>,
       languages |-> <<>>],
      [tree |-> <<Blob(<<"R", "E", "A", "D", "M", "E", ".", "m", "d">>), SRC_DIR, Blob(<<"s", "r", "c", "/", "a", ".", "p", "y">>)>>,
       languages |-> LANGUAGE_ITEMS],
      [tree |-> <<Blob(<<"R", "E", "A", "D", "M", "E", ".", "m", "d">>), FileNode(LONG_PATH, "blob", 5120)>>,
       languages |-> <<>>],
      [tree |-> <<Blob(LONG_README_PATH), Blob(LibPath(1))>>,
       languages |-> <<>>],
      [tree |-> <<Blob(LONG_README_PATH), Blob(LibPath(1)), Blob(<<"R", "E", "A", "D", "M", "E", ".", "m", "d">>)>>,
       languages |-> <<>>],
      [tree |-> <<PNG_BLOB, SRC_DIR, Blob(<<"s", "r", "c", "/", "a", ".", "p", "y">>), Blob(<<"m", "a", "i", "n", ".", "p", "y">>), Blob(<<"t", "e", "s", "t", "s", "/", "t", "e", "s", "t", "_", "a", ".", "p", "y">>), Blob(<<"s", "e", "t", "u", "p", ".", "p", "y">>), Blob(<<"R", "E", "A", "D", "M", "E", ".", "m", "d">>)>>,
       languages |-> LANGUAGE_ITEMS] }

DEFAULT_MAX_CONTEXT_TOKENS == 12000

DEFAULT_MAX_FILES_TO_FETCH == 30

DEFAULT_MAX_FILE_SIZE_KB == 200

\* budgets under which the source text of the repositories above is cut
SmallContext == 60

MidContext == 150

ContextBudgets == {SmallContext, MidContext, DEFAULT_MAX_CONTEXT_TOKENS}

ExecuteInit ==
    /\ \E repo \in Repositories, max_context_tokens \in ContextBudgets :
          call = [op |-> "execute", tree |-> repo.tree, languages |-> repo.languages,
                  max_context_tokens |-> max_context_tokens,
                  max_files_to_fetch |-> DEFAULT_MAX_FILES_TO_FETCH,
                  max_file_size_kb |-> DEFAULT_MAX_FILE_SIZE_KB]
    /\ ret = <<>>
    /\ PipelineFresh("fetch_metadata")
    /\ NoThreads

Spec == ExecuteInit /\ [][Next]_vars

\* the gather of _fetch_files has returned
Gathered == pc \notin {"idle", "fetch_metadata", "fetch_tree", "fetch_files"} /\ fetch_state # <<>>

AllFetchesFailed == \A i \in 1..Len(fetch_state) : fetch_state[i] = "failed"

\* C2: every text handed to the text-generation service during a run of
\* execute (the user prompt of the final call and of every secondary per-file
\* call) is repository text that went through sanitize: no secret-shaped
\* substring is left in it for sanitize to redact.
C2_OnlySanitizedTextGenerated ==
    \A i \in 1..Len(llm_calls) : sanitize(llm_calls[i].user).redaction_count = 0

\* the raw source text of step 7 and the cap of the source slot of the first
\* allocation
RawSourceTokens == count_tokens(GetText(raw_contents, "source"))

SourceCap == get_slot(budgeted[1], "source")[1].max_tokens

\* C7: execute takes the multi-pass path if and only if the raw source text
\* is not empty and has more than twice as many tokens as the cap the first
\* allocation recorded for the source slot; otherwise it takes the single-pass
\* path, whose one call sends the first allocation.
C7_MultiPassIffRawSourceOverTwiceCap ==
    mode # "" =>
        /\ mode = "multi" <=>
               /\ GetText(raw_contents, "source") # <<>>
               /\ RawSourceTokens > 2 * SourceCap
        /\ mode = "multi" => pc = "summarise_files" \/ pass2_budget # <<>>
        /\ mode = "single" =>
               /\ pass2_budget = <<>>
               /\ llm_calls = <<LlmCall("SYSTEM_PROMPT", assemble(budgeted[1]))>>

\* a run on the multi-pass path, at its first secondary call
C7_MultiPassTaken ==
    /\ mode = "multi"
    /\ pc = "summarise_files"
    /\ RawSourceTokens > 2 * SourceCap

\* C9: when the fetch of every selected file fails, so that no file is
\* fetched, execute raises and issues no generation call.
C9_AllFetchesFailedFailsHard ==
    Gathered /\ AllFetchesFailed => pc = "raised" /\ llm_calls = <<>>

\* the tree of the run has no blob entry
NoBlobInTree == \A i \in 1..Len(tree[1]) : tree[1][i].type # "blob"

NoBlobSurvives == filter_and_classify(tree[1], call.max_file_size_kb) = <<>>

\* C10: once fetch_tree has returned a tree without blob entries (empty, or of
\* tree entries only), or one of which no blob survives the filter, execute
\* raises EmptyRepositoryError and issues no content fetch and no generation
\* call.
C10_EmptyRepositoryRaised ==
    tree # <<>> /\ (NoBlobInTree \/ NoBlobSurvives) =>
        /\ pc = "raised"
        /\ raised = "EmptyRepositoryError"
        /\ fetch_calls = <<>>
        /\ llm_calls = <<>>

\* a run on a tree that has blobs, none of which survives the filter
C10_FilteredTreeRaised ==
    /\ tree # <<>>
    /\ ~NoBlobInTree
    /\ NoBlobSurvives
    /\ raised = "EmptyRepositoryError"

(***************************************************************************)
(* Checks of extract_skeleton: the path and the content are drawn in the   *)
(* initial state; the contents are the file texts above, the deep          *)
(* expression, and texts of about MAX_FALLBACK_LINES lines that do not     *)
(* parse.                                                                  *)
(***************************************************************************)
MaxExtraLines == 2

SkeletonPaths ==
    { <<"a", ".", "p", "y">>, <<"A", ".", "P", "Y">>, <<"a", ".", "p", "y", "w">>,
      <<"a", ".", "j", "s">>, <<"a", ".", "t", "s", "x">>, <<"a", ".", "r", "s">>,
      <<"M", "a", "k", "e", "f", "i", "l", "e">> }

\* n lines "f(", none of which is Python
BrokenLines(n) == Concat([i \in 1..n |-> <<"f", "(", "\n">>])

SkeletonContents ==
    {e.content : e \in REPO_CONTENT}
        \cup {DEEP_SOURCE, <<>>}
        \cup {BrokenLines(MAX_FALLBACK_LINES - 1 + k) : k \in 0..MaxExtraLines}

SkeletonInit ==
    /\ call \in [op : {"extract_skeleton"}, path : SkeletonPaths, content : SkeletonContents]
    /\ ret = <<>>
    /\ PipelineIdle
    /\ NoThreads

ExtractSkeleton ==
    /\ call.op = "extract_skeleton"
    /\ ret = <<>>
    /\ ret' = <<extract_skeleton(call.path, call.content, ast_parse(call.content))>>
    /\ UNCHANGED <<call, pvars, evars>>

SpecSkeleton == SkeletonInit /\ [][ExtractSkeleton]_vars

\* the first MAX_FALLBACK_LINES lines of the content
FallbackText(content) == Join(Take(SplitLines(content), MAX_FALLBACK_LINES), <<"\n">>)

\* C11: extract_skeleton never raises: whenever the parser fails on the
\* content of a Python file, whatever it raises, the result is the first
\* 60 lines of the content with an empty import list.
C11_ExtractSkeletonNeverRaises ==
    Returned("extract_skeleton") =>
        /\ ret[1].raises = ""
        /\ (extension(call.path) \in PYTHON_EXTS /\ ast_parse(call.content).raises # "") =>
               /\ ret[1].skeleton_text = FallbackText(call.content)
               /\ ret[1].imports = <<>>

(***************************************************************************)
(* Checks of the file filter: classify on one path, should_skip on one     *)
(* node, filter_and_classify on a list of nodes.  The paths are the names  *)
(* of the tables in three letter cases and at three depths, and a few      *)
(* names of no table.                                                      *)
(***************************************************************************)
MaxNodes == 2

\* str.upper() of one character, of a text
ToUpper(c) ==
    IF c \in LOWERS THEN UPPER[CHOOSE i \in 1..Len(LOWER) : LOWER[i] = c] ELSE c

Uppered(s) == [i \in 1..Len(s) |-> ToUpper(s[i])]

\* a name as the table writes it, in lower case and in upper case
LetterCases(name) == {name, Lowered(name), Uppered(name)}

FilterDirs == { <<>>, <<"s", "r", "c", "/">>, <<"a", "/", "b", "/">> }

PlainNames == { <<"u", "t", "i", "l", ".", "p", "y">>, <<"t", "e", "s", "t", "_", "a", ".", "p", "y">>, <<"g", "u", "i", "d", "e", ".", "m", "d">>, <<"n", "o", "t", "e", "s", ".", "d", "b">> }

ClassifyNames ==
    PlainNames \cup UNION {LetterCases(e) : e \in README_NAMES \cup CONFIG_NAMES \cup ENTRY_POINT_NAMES}

SkipNames ==
    PlainNames \cup UNION {LetterCases(e) : e \in SECRET_FILES \cup SKIP_FILENAMES}

\* max_size_kb: the default and a small cap
SizeCaps == {1, DEFAULT_MAX_FILE_SIZE_KB}

\* sizes at and around the two caps
NodeSizes == {0, 1024, 1025, DEFAULT_MAX_FILE_SIZE_KB * 1024, 500 * 1024}

\* the nodes of the trees filter_and_classify is given
FilterNodes ==
    { FileNode(<<"R", "E", "A", "D", "M", "E", ".", "m", "d">>, "blob", 100),
      PNG_BLOB,
      SRC_DIR,
      ENV_BLOB,
      FileNode(<<".", "D", "S", "_", "S", "t", "o", "r", "e">>, "blob", 10),
      FileNode(<<"s", "r", "c", "/", "b", "i", "g", ".", "p", "y">>, "blob", 500 * 1024),
      FileNode(<<"s", "r", "c", "/", "e", "d", "g", "e", ".", "p", "y">>, "blob", DEFAULT_MAX_FILE_SIZE_KB * 1024),
      FileNode(<<"n", "o", "d", "e", "_", "m", "o", "d", "u", "l", "e", "s", "/", "a", ".", "j", "s">>, "blob", 10),
      FileNode(<<"M", "a", "k", "e", "f", "i", "l", "e">>, "blob", 10),
      FileNode(<<"m", "a", "i", "n", ".", "p", "y">>, "blob", 10) }

RECURSIVE NodeLists(_)
NodeLists(k) ==
    IF k = 0 THEN {<<>>}
    ELSE LET shorter == NodeLists(k - 1)
         IN  shorter \cup {Append(l, n) : l \in {x \in shorter : Len(x) = k - 1}, n \in FilterNodes}

FilterInit ==
    /\ call \in [op : {"classify"}, path : {d \o n : d \in FilterDirs, n \in ClassifyNames}]
             \cup [op : {"should_skip"},
                   node : {FileNode(d \o n, t, z) :
                              d \in FilterDirs, n \in SkipNames, t \in {"blob", "tree"}, z \in NodeSizes},
                   max_size_kb : SizeCaps]
             \cup [op : {"filter_and_classify"}, nodes : NodeLists(MaxNodes), max_size_kb : SizeCaps]
    /\ ret = <<>>
    /\ PipelineIdle
    /\ NoThreads

Classify ==
    /\ call.op = "classify"
    /\ ret = <<>>
    /\ ret' = <<classify(call.path)>>
    /\ UNCHANGED <<call, pvars, evars>>

ShouldSkip ==
    /\ call.op = "should_skip"
    /\ ret = <<>>
    /\ ret' = <<should_skip(call.node, call.max_size_kb)>>
    /\ UNCHANGED <<call, pvars, evars>>

FilterAndClassify ==
    /\ call.op = "filter_and_classify"
    /\ ret = <<>>
    /\ ret' = <<filter_and_classify(call.nodes, call.max_size_kb)>>
    /\ UNCHANGED <<call, pvars, evars>>

SpecFilter == FilterInit /\ [][Classify \/ ShouldSkip \/ FilterAndClassify]_vars

\* name equals a name of the table in some letter case
NameIn(name, table) == \E e \in table : Lowered(e) = Lowered(name)

\* C12: classify is case-insensitive on the filename: a path whose final
\* segment is a name of the manifest table in any letter case is Config, one
\* of the entry-point table is EntryPoint, unless an earlier rule (Readme,
\* then Config) matched.
C12_ClassifyCaseInsensitive ==
    Returned("classify") =>
        LET name == filename(call.path)
        IN  /\ (NameIn(name, CONFIG_NAMES) /\ ~NameIn(name, README_NAMES))
                    => ret[1] = "config"
            /\ (NameIn(name, ENTRY_POINT_NAMES) /\ ~NameIn(name, README_NAMES)
                    /\ ~NameIn(name, CONFIG_NAMES))
                    => ret[1] = "entry_point"

\* C13: should_skip rejects every blob whose final path segment is a name of
\* the secret-file or skip-filename tables, at any depth and whatever its
\* size, and filter_and_classify returns no such entry.
C13_TableNamesSkipped ==
    /\ (Returned("should_skip") /\ call.node.type = "blob"
            /\ filename(call.node.path) \in SECRET_FILES \cup SKIP_FILENAMES)
            => ret[1] = TRUE
    /\ Returned("filter_and_classify") =>
            \A i \in 1..Len(ret[1]) :
                filename(ret[1][i].node.path) \notin SECRET_FILES \cup SKIP_FILENAMES

\* a reject rule matches the node: no blob, a skip-directory segment, a
\* secret or skip filename, a skip extension on the lowercased path, or a
\* size over the cap
Rejected(node, max_size_kb) ==
    \/ node.type # "blob"
    \/ segment_in_skip_dirs(node.path)
    \/ NameIn(filename(node.path), SECRET_FILES \cup SKIP_FILENAMES)
    \/ has_skip_extension(node.path)
    \/ node.size > max_size_kb * 1024

\* the entries of nodes that match no reject rule, in the order of nodes,
\* each with its category
KeptEntries(nodes, max_size_kb) ==
    LET idx == SelectIdx(Len(nodes), {i \in 1..Len(nodes) : ~Rejected(nodes[i], max_size_kb)})
    IN  [k \in 1..Len(idx) |-> [node |-> nodes[idx[k]], category |-> classify(nodes[idx[k]].path)]]

\* C14: filter_and_classify returns, in input order, exactly the blob
\* entries that match no reject rule, each paired with classify(path).
C14_FilterKeepsExactlyUnrejected ==
    Returned("filter_and_classify") =>
        ret[1] = KeptEntries(call.nodes, call.max_size_kb)

\* the example of the claim: a root README.md is kept as Readme and the
\* 500 KB assets/x.png is dropped under the default cap
C14_ReadmeKeptPngDropped ==
    (Returned("filter_and_classify") /\ call.max_size_kb = DEFAULT_MAX_FILE_SIZE_KB
        /\ \E i, j \in 1..Len(call.nodes) :
               call.nodes[i].path = <<"R", "E", "A", "D", "M", "E", ".", "m", "d">> /\ call.nodes[j] = PNG_BLOB)
        => /\ \E k \in 1..Len(ret[1]) :
                  /\ ret[1][k].node.path = <<"R", "E", "A", "D", "M", "E", ".", "m", "d">>
                  /\ ret[1][k].category = "readme"
           /\ \A k \in 1..Len(ret[1]) : ret[1][k].node # PNG_BLOB

\* text[i .. i + 19] is 'AKIA' followed by 16 uppercase alphanumerics
IsAwsKeyAt(text, i) ==
    /\ i + 19 <= Len(text)
    /\ SubSeq(text, i, i + 3) = <<"A", "K", "I", "A">>
    /\ \A k \in (i + 4)..(i + 19) : text[k] \in DIGITS \cup UPPERS

\* the text around the key at i holds no secret: sanitize redacts nothing
\* in what precedes the key, in what follows it, and in the two put together
NoOtherSecret(before, after) ==
    /\ sanitize(before).redaction_count = 0
    /\ sanitize(after).redaction_count = 0
    /\ sanitize(before \o after).redaction_count = 0

\* C15: for any text that contains 'AKIA' followed by 16 uppercase
\* alphanumerics and no other secret, sanitize replaces exactly those 20
\* characters with the placeholder, leaves every other character unchanged
\* and reports one redaction.
C15_AwsKeyAloneRedacted ==
    Returned("sanitize") =>
        \A i \in 1..Len(call.text) :
            (IsAwsKeyAt(call.text, i)
                /\ NoOtherSecret(SubSeq(call.text, 1, i - 1),
                                 SubSeq(call.text, i + 20, Len(call.text))))
            => ret[1] = [clean_text |-> SubSeq(call.text, 1, i - 1) \o REDACTION
                                          \o SubSeq(call.text, i + 20, Len(call.text)),
                         redaction_count |-> 1]

(***************************************************************************)
(* Checks of _parse_llm_response: the reply is a body (a JSON text or      *)
(* not) as it is, padded with white space, or inside a code fence.         *)
(***************************************************************************)
PARSE_BODIES ==
    { <<"{", "\"", "s", "u", "m", "m", "a", "r", "y", "\"", ":", " ", "\"", "A",
        " ", "d", "e", "m", "o", ".", "\"", ",", " ", "\"", "t", "e", "c", "h",
        "n", "o", "l", "o", "g", "i", "e", "s", "\"", ":", " ", "[", "\"", "P",
        "y", "t", "h", "o", "n", "\"", "]", ",", " ", "\"", "s", "t", "r", "u",
        "c", "t", "u", "r", "e", "\"", ":", " ", "\"", "f", "l", "a", "t", "\"",
        "}">>,
      <<"{", "\"", "s", "u", "m", "m", "a", "r", "y", "\"", ":", " ", "\"", "A",
        "\"", "}">>,
      <<"{", "\"", "s", "u", "m", "m", "a", "r", "y", "\"", ":", " ", "\"", "\"", "}">>,
      <<"{", "\"", "s", "u", "m", "m", "a", "r", "y", "\"", ":", " ", "5", "}">>,
      <<"{", "\"", "s", "u", "m", "m", "a", "r", "y", "\"", ":", " ", "n", "u",
        "l", "l", "}">>,
      <<"{", "\"", "s", "u", "m", "m", "a", "r", "y", "\"", ":", " ", "[", "\"",
        "A", "\"", "]", "}">>,
      <<"{", "}">>,
      <<"{", "\"", "t", "e", "c", "h", "n", "o", "l", "o", "g", "i", "e", "s",
        "\"", ":", " ", "[", "\"", "x", "\"", "]", ",", " ", "\"", "s", "t", "r",
        "u", "c", "t", "u", "r", "e", "\"", ":", " ", "\"", "s", "\"", "}">>,
      <<"{", "\"", "s", "u", "m", "m", "a", "r", "y", "\"", ":", " ", "\"", "A",
        "\"", ",", " ", "\"", "t", "e", "c", "h", "n", "o", "l", "o", "g", "i",
        "e", "s", "\"", ":", " ", "\"", "P", "y", "t", "h", "o", "n", "\"", ",",
        " ", "\"", "s", "t", "r", "u", "c", "t", "u", "r", "e", "\"", ":", " ",
        "7", "}">>,
      <<"{", "\"", "s", "u", "m", "m", "a", "r", "y", "\"", ":", " ", "\"", "A",
        "\"", ",", " ", "\"", "t", "e", "c", "h", "n", "o", "l", "o", "g", "i",
        "e", "s", "\"", ":", " ", "[", "\"", "P", "y", "\"", ",", " ", "\"", "\"",
        ",", " ", "0", ",", " ", "3", ",", " ", "n", "u", "l", "l", ",", " ",
        "{", "\"", "a", "\"", ":", " ", "1", "}", "]", ",", " ", "\"", "s", "t",
        "r", "u", "c", "t", "u", "r", "e", "\"", ":", " ", "n", "u", "l", "l",
        "}">>,
      <<"{", "\"", "s", "u", "m", "m", "a", "r", "y", "\"", ":", " ", "\"", "A",
        "\"", ",", " ", "\"", "s", "u", "m", "m", "a", "r", "y", "\"", ":", " ",
        "\"", "\"", "}">>,
      <<"{", "\"", "S", "u", "m", "m", "a", "r", "y", "\"", ":", " ", "\"", "A",
        "\"", "}">>,
      <<"[", "]">>,
      <<"[", "\"", "s", "u", "m", "m", "a", "r", "y", "\"", "]">>,
      <<"\"", "A", " ", "d", "e", "m", "o", ".", "\"">>,
      <<"5">>,
      <<"n", "u", "l", "l">>,
      <<"o", "o", "p", "s">>,
      <<>> }

FENCE == <<"U0060", "U0060", "U0060">>

\* the ways a reply wraps its body
Wrapped(b) ==
    { b,
      <<" ">> \o b \o <<"\n">>,
      FENCE \o <<"j", "s", "o", "n", "\n">> \o b \o <<"\n">> \o FENCE,
      FENCE \o <<"\n">> \o b \o FENCE,
      FENCE \o b \o FENCE,
      FENCE \o <<"j", "s", "o", "n", "\n">> \o b }

ParseInit ==
    /\ call \in [op : {"parse_llm_response"}, raw : UNION {Wrapped(b) : b \in PARSE_BODIES}]
    /\ ret = <<>>
    /\ PipelineIdle
    /\ NoThreads

ParseLlmResponse ==
    /\ call.op = "parse_llm_response"
    /\ ret = <<>>
    /\ ret' = <<parse_llm_response(call.raw)>>
    /\ UNCHANGED <<call, pvars, evars>>

SpecParse == ParseInit /\ [][ParseLlmResponse]_vars

\* the reply, its fence stripped, is a JSON object whose "summary" is a
\* non-empty string
HasSummary(loaded) ==
    /\ ~loaded.raises
    /\ loaded.value.type = "dict"
    /\ DictGet(loaded.value, <<"s", "u", "m", "m", "a", "r", "y">>, JsonNone).type = "str"
    /\ DictGet(loaded.value, <<"s", "u", "m", "m", "a", "r", "y">>, JsonNone).text # <<>>

\* C16: a SummaryResult is returned only when the final reply, its code
\* fence stripped, parses as a JSON object with a non-empty string
\* "summary"; in every other case LlmError is raised; and whatever
\* "technologies" and "structure" are, such a reply never fails.
C16_SummaryOrLlmError ==
    Returned("parse_llm_response") =>
        IF HasSummary(json_loads(StripFence(call.raw)))
        THEN ret[1].raises = ""
        ELSE ret[1].raises = "LlmError"

(***************************************************************************)
(* Checks of _select_files_to_fetch: the classified list is what the       *)
(* filter gives for a list of blobs, the limit is drawn from 0 on.         *)
(***************************************************************************)
MaxClassified == 3

MaxFilesLimit == 3

SelectPaths ==
    { <<"R", "E", "A", "D", "M", "E", ".", "m", "d">>, <<"s", "e", "t", "u", "p", ".", "p", "y">>, <<"m", "a", "i", "n", ".", "p", "y">>, <<"s", "r", "c", "/", "a", ".", "p", "y">>, <<"s", "r", "c", "/", "B", ".", "p", "y">>, <<"d", "o", "c", "s", "/", "g", "u", "i", "d", "e", ".", "m", "d">>, <<"t", "e", "s", "t", "s", "/", "t", "e", "s", "t", "_", "a", ".", "p", "y">> }

RECURSIVE BlobLists(_)
BlobLists(k) ==
    IF k = 0 THEN {<<>>}
    ELSE LET shorter == BlobLists(k - 1)
         IN  shorter \cup {Append(l, FileNode(q, "blob", 10)) :
                              l \in {x \in shorter : Len(x) = k - 1}, q \in SelectPaths}

SelectInit ==
    /\ call \in [op : {"select_files_to_fetch"},
                 classified : {filter_and_classify(l, DEFAULT_MAX_FILE_SIZE_KB) : l \in BlobLists(MaxClassified)},
                 max_files : 0..MaxFilesLimit]
    /\ ret = <<>>
    /\ PipelineIdle
    /\ NoThreads

SelectFilesToFetch ==
    /\ call.op = "select_files_to_fetch"
    /\ ret = <<>>
    /\ ret' = <<select_files_to_fetch(call.classified, call.max_files)>>
    /\ UNCHANGED <<call, pvars, evars>>

SpecSelect == SelectInit /\ [][SelectFilesToFetch]_vars

\* the rank of a category: Readme < Config < EntryPoint < Source < Docs <
\* Test < Other
CategoryRank(c) ==
    CASE c = "readme" -> 0 [] c = "config" -> 1 [] c = "entry_point" -> 2
      [] c = "source" -> 3 [] c = "docs" -> 4 [] c = "test" -> 5 [] OTHER -> 6

\* a comes strictly before b by category rank, then by path
Precedes(a, b) ==
    \/ CategoryRank(a.category) < CategoryRank(b.category)
    \/ CategoryRank(a.category) = CategoryRank(b.category) /\ StrLess(a.node.path, b.node.path)

\* the number of entries of l equal to e
Copies(l, e) == Cardinality({i \in 1..Len(l) : l[i] = e})

\* C17: _select_files_to_fetch returns at most max_files_to_fetch entries,
\* the first ones of the classified list in the order of category rank and
\* then path: the result is in that order, holds entries of the list only,
\* as many as the limit allows, and no entry left out precedes a selected
\* one.
C17_SelectsFirstByPriority ==
    Returned("select_files_to_fetch") =>
        /\ Len(ret[1]) = Min(call.max_files, Len(call.classified))
        /\ \A i \in 1..Len(ret[1]) :
               Copies(ret[1], ret[1][i]) <= Copies(call.classified, ret[1][i])
        /\ \A i, j \in 1..Len(ret[1]) : i < j => ~Precedes(ret[1][j], ret[1][i])
        /\ \A u \in 1..Len(call.classified) :
               Copies(ret[1], call.classified[u]) < Copies(call.classified, call.classified[u])
                   => \A i \in 1..Len(ret[1]) : ~Precedes(call.classified[u], ret[1][i])

\* a selection that cut the list and did not keep its first entries as given
C17_SortedAndCut ==
    /\ Returned("select_files_to_fetch")
    /\ call.max_files > 0
    /\ Len(call.classified) > call.max_files
    /\ ret[1] # Take(call.classified, call.max_files)

(***************************************************************************)
(* Checks of allocate on sparse contents: a dict that holds some of the    *)
(* slot names only, each with an empty or a one-token text.                *)
(***************************************************************************)
SparseTexts == {<<>>, <<"a">>}

SparseBudgets == Budgets \cup {1000, DEFAULT_MAX_CONTEXT_TOKENS}

SparseInit ==
    /\ call \in [op : {"allocate"},
                 contents : UNION {[keys -> SparseTexts] : keys \in SUBSET SlotNames},
                 total_budget : SparseBudgets]
    /\ ret = <<>>
    /\ PipelineIdle
    /\ NoThreads

SpecAllocateSparse == SparseInit /\ [][Allocate]_vars

\* every slot text is empty or absent
AllEmpty(contents) ==
    \A k \in SlotNames : k \notin DOMAIN contents \/ contents[k] = <<>>

\* the tokens used by the slots before slot i
UsedBefore(slots, i) == SumUsed(SubSeq(slots, 1, i - 1))

\* C18: when every slot text is empty or absent, allocate returns the five
\* slots of the table, each with empty content and used_tokens = 0, and
\* total_tokens = 0; and in any allocation an empty slot records the cap
\* computed for it, which is the remainder the slots before it left, and
\* uses nothing of it.
C18_EmptySlotsUseNothing ==
    Returned("allocate") =>
        LET slots  == ret[1].slots
            usable == call.total_budget - (call.total_budget * 5) \div 100
        IN  /\ AllEmpty(call.contents) =>
                   /\ [i \in 1..Len(slots) |-> slots[i].name]
                          = <<"languages", "readme", "config", "tree", "source">>
                   /\ \A i \in 1..Len(slots) :
                          /\ slots[i].content = <<>>
                          /\ slots[i].used_tokens = 0
                          /\ slots[i].max_tokens = usable
                   /\ ret[1].total_tokens = 0
            /\ \A i \in 1..Len(slots) :
                   (slots[i].name \notin DOMAIN call.contents
                       \/ call.contents[slots[i].name] = <<>>) =>
                       /\ slots[i].content = <<>>
                       /\ slots[i].used_tokens = 0
                       /\ slots[i].max_tokens = Max(usable - UsedBefore(slots, i), 0)

\* the example of the claim: a budget of 1000, no slot text, some absent
C18_AllEmptyOfThousand ==
    /\ Returned("allocate")
    /\ AllEmpty(call.contents)
    /\ DOMAIN call.contents # SlotNames
    /\ call.total_budget = 1000
    /\ ret[1].total_tokens = 0

(***************************************************************************)
(* Checks of _fetch_files on more files than the semaphore has permits:    *)
(* execute stands at the gather of _fetch_files for a repository of small  *)
(* documentation files; the tasks start and end in any order the semaphore *)
(* allows, and _fetch_files returns.                                       *)
(***************************************************************************)
ExtraFiles == 1

DocTree(n) == [i \in 1..n |-> FileNode(DocPath(i), "blob", 4)]

\* execute after step 3, for the tree nodes
AtFetchFiles(nodes) ==
    /\ call = [op |-> "execute", tree |-> nodes, languages |-> <<>>,
               max_context_tokens |-> DEFAULT_MAX_CONTEXT_TOKENS,
               max_files_to_fetch |-> DEFAULT_MAX_FILES_TO_FETCH,
               max_file_size_kb |-> DEFAULT_MAX_FILE_SIZE_KB]
    /\ ret = <<>>
    /\ pc = "fetch_files" /\ raised = ""
    /\ tree = <<nodes>> /\ languages = <<>>
    /\ files_to_fetch = select_files_to_fetch(
                            filter_and_classify(nodes, DEFAULT_MAX_FILE_SIZE_KB),
                            DEFAULT_MAX_FILES_TO_FETCH)
    /\ fetch_state = [i \in 1..Len(nodes) |-> "pending"]
    /\ fetch_calls = <<>> /\ repo_files = <<>>
    /\ scored = <<>> /\ raw_contents = <<>> /\ budgeted = <<>>
    /\ mode = "" /\ top_sources = <<>> /\ attempted = 0
    /\ file_summaries = <<>> /\ pass2_budget = <<>> /\ llm_calls = <<>>
    /\ NoThreads

FetchInit ==
    \E n \in {ExtraFiles, FETCH_CONCURRENCY, FETCH_CONCURRENCY + ExtraFiles} :
        AtFetchFiles(DocTree(n))

\* the gather of _fetch_files returns the files that were fetched
FetchFilesReturn ==
    /\ call.op = "execute"
    /\ pc = "fetch_files"
    /\ \A i \in 1..Len(fetch_state) : fetch_state[i] \in {"ok", "failed"}
    /\ pc' = "fetched"
    /\ repo_files' = FetchedFiles(files_to_fetch, fetch_state)
    /\ UNCHANGED <<evars, call, ret, raised, tree, languages, files_to_fetch, fetch_state,
                   fetch_calls, scored, raw_contents, budgeted, mode, top_sources,
                   attempted, file_summaries, pass2_budget, llm_calls>>

FetchNext ==
    \/ \E i \in 1..Len(fetch_state) : FetchStart(i)
    \/ \E i \in 1..Len(fetch_state) : FetchDone(i)
    \/ FetchFilesReturn

SpecFetch == FetchInit /\ [][FetchNext]_vars

\* the fetch_file_content calls that were made and have not ended
CallsInFlight == Cardinality({i \in 1..Len(fetch_state) : fetch_state[i] = "in_flight"})

\* C19: during _fetch_files at most 10 fetch_file_content calls are in
\* flight at any moment, whatever the number of files and the order in
\* which the calls end or fail.
C19_AtMostTenInFlight == CallsInFlight <= 10

\* all permits are taken again after a fetch failed: more calls were made
\* than there are permits, and as many as there are permits are in flight
C19_PermitsExhausted ==
    /\ CallsInFlight = 10
    /\ Len(fetch_calls) > 10
    /\ \E i \in 1..Len(fetch_state) : fetch_state[i] = "failed"

\* the selected files whose fetch returned, in the order of the selection
OkIndices == SelectIdx(Len(fetch_state), {i \in 1..Len(fetch_state) : fetch_state[i] = "ok"})

\* C20: a failed fetch of one file is never fatal and never retried: no
\* path is fetched twice, a run with a failed fetch raises nothing but what
\* the generation call raises, the files _fetch_files returns are exactly
\* the selected files whose fetch returned, in order and with their
\* content, and execute goes on to the generation with them.
C20_FailedFetchSkipped ==
    /\ \A i, j \in 1..Len(fetch_calls) : i # j => fetch_calls[i] # fetch_calls[j]
    /\ (\E i \in 1..Len(fetch_state) : fetch_state[i] = "failed") =>
           raised \in {"", "LlmError"} /\ (raised = "LlmError" => llm_calls # <<>>)
    /\ Gathered =>
           /\ Len(repo_files) = Len(OkIndices)
           /\ \A k \in 1..Len(repo_files) :
                  /\ repo_files[k].path = files_to_fetch[OkIndices[k]].node.path
                  /\ repo_files[k].content = ContentOf(repo_files[k].path)
           /\ llm_calls # <<>>

\* a run that returned a summary although a fetch failed and another did not
C20_ReturnedDespiteFailure ==
    /\ pc = "returned"
    /\ \E i \in 1..Len(fetch_state) : fetch_state[i] = "failed"
    /\ \E i \in 1..Len(fetch_state) : fetch_state[i] = "ok"
    /\ Len(repo_files) < Len(files_to_fetch)
    /\ repo_files # <<>>

(***************************************************************************)
(* Checks of the choice of the files of pass 1: execute from the return of *)
(* the last fetch, on a repository of about TOP_SCORED_FILES source files  *)
(* with or without a test file at its root, under the small budget.        *)
(***************************************************************************)
ExtraSources == 1

LibTree(n, with_test) ==
    [i \in 1..n |-> Blob(LibPath(i))]
        \o (IF with_test THEN <<Blob(ROOT_TEST_PATH)>> ELSE <<>>)

\* execute at the gather of _fetch_files, every fetch answered as `states` says
AtGather(nodes, max_tokens, states) ==
    /\ call = [op |-> "execute", tree |-> nodes, languages |-> <<>>,
               max_context_tokens |-> max_tokens,
               max_files_to_fetch |-> DEFAULT_MAX_FILES_TO_FETCH,
               max_file_size_kb |-> DEFAULT_MAX_FILE_SIZE_KB]
    /\ ret = <<>>
    /\ pc = "fetch_files" /\ raised = ""
    /\ tree = <<nodes>> /\ languages = <<>>
    /\ files_to_fetch = select_files_to_fetch(
                            filter_and_classify(nodes, DEFAULT_MAX_FILE_SIZE_KB),
                            DEFAULT_MAX_FILES_TO_FETCH)
    /\ fetch_state = states
    /\ fetch_calls = [i \in 1..Len(files_to_fetch) |-> files_to_fetch[i].node.path]
    /\ repo_files = <<>>
    /\ scored = <<>> /\ raw_contents = <<>> /\ budgeted = <<>>
    /\ mode = "" /\ top_sources = <<>> /\ attempted = 0
    /\ file_summaries = <<>> /\ pass2_budget = <<>> /\ llm_calls = <<>>
    /\ NoThreads

TopInit ==
    \E n \in (TOP_SCORED_FILES - ExtraSources)..(TOP_SCORED_FILES + ExtraSources),
       with_test \in BOOLEAN :
        AtGather(LibTree(n, with_test), SmallContext,
                 [i \in 1..(n + (IF with_test THEN 1 ELSE 0)) |-> "ok"])

TopNext == GatherFiles \/ FileSummaryReply \/ FinalReply

SpecTop == TopInit /\ [][TopNext]_vars

\* the fetched files of category Source or EntryPoint
SourceFiles == FilesOf(repo_files, {"source", "entry_point"})

\* the place of a path in the score order
RankOf(path) == CHOOSE j \in 1..Len(scored) : scored[j].path = path

IsTopSource(f) == \E k \in 1..Len(top_sources) : top_sources[k].path = f.path

C21_TopSourcesWithinFirstEightScored ==
    mode = "multi" =>
        /\ \A k \in 1..Len(top_sources) :
               /\ top_sources[k].category \in {"source", "entry_point"}
               /\ RankOf(top_sources[k].path) <= TOP_SCORED_FILES
        /\ \A i \in 1..Len(SourceFiles) :
               RankOf(SourceFiles[i].path) <= TOP_SCORED_FILES => IsTopSource(SourceFiles[i])
(***************************************************************************)
(* Checks of the calls of llm.complete.  `attempted` counts the secondary  *)
(* calls that returned or raised.                                          *)
(***************************************************************************)
\* the calls issued so far with a given system prompt, as indices of llm_calls
CallsWith(system) == {k \in 1..Len(llm_calls) : llm_calls[k].system = system}

SecondaryCalls == CallsWith("FILE_SUMMARY_SYSTEM_PROMPT")

FinalCalls == CallsWith("SYSTEM_PROMPT")

\* C22: in multi-pass mode the secondary calls are issued one at a time, in
\* the order of the files of pass 1, and a call that fails is skipped: every
\* remaining file is still attempted and the final call is still issued.
C22_SecondaryCallsSequentialAndSkipped ==
    mode = "multi" =>
        /\ SecondaryCalls = 1..Cardinality(SecondaryCalls)
        /\ Cardinality(SecondaryCalls) <= Len(top_sources)
        /\ \A k \in SecondaryCalls :
               llm_calls[k].user = FileSummaryPrompt(top_sources[k])
        /\ Cardinality(SecondaryCalls) - attempted
               = (IF pc = "summarise_files" THEN 1 ELSE 0)
        /\ Len(file_summaries) <= attempted
        /\ pc # "summarise_files" =>
               /\ attempted = Len(top_sources)
               /\ Cardinality(FinalCalls) = 1

\* a multi-pass run of two files or more whose secondary calls all failed,
\* at its final call
C22_AllSecondaryCallsFailed ==
    /\ mode = "multi"
    /\ Len(top_sources) >= 2
    /\ attempted = Len(top_sources)
    /\ file_summaries = <<>>
    /\ pc = "generate"
\* one pattern applied to the text as it was handed to sanitize
OnOriginal(text) == [clean_text |-> text, redaction_count |-> 0]

\* the replacements of every pattern matched against the original text
IndependentCount(text) ==
    SubAwsKey(OnOriginal(text)).redaction_count
    + SubGithubToken(OnOriginal(text)).redaction_count
    + SubGenericKey(OnOriginal(text)).redaction_count
    + SubPassword(OnOriginal(text)).redaction_count
    + SubPrivateKey(OnOriginal(text)).redaction_count
    + SubJwt(OnOriginal(text)).redaction_count
    + SubConnString(OnOriginal(text)).redaction_count
    + SubBearer(OnOriginal(text)).redaction_count

\* C23: the patterns of sanitize never consult each other's output: the
\* number of replacements each contributes is the number of its matches on
\* the original text, so the total count is that of matching every pattern
\* independently against the original text.
C23_PatternsMatchOriginalText ==
    (call.op = "sanitize" /\ ret # <<>>) =>
        ret[1].redaction_count = IndependentCount(call.text)
\* "### path\n\n" and a text: a part of the source slot
SourcePart(path, text) == <<"#", "#", "#", " ">> \o path \o <<"\n", "\n">> \o text

\* the fetched files whose text, not a list of their declarations, is what
\* the source slot holds of them: the head that the fallback keeps
HeadInSourceSlot ==
    {i \in 1..Len(repo_files) :
        /\ repo_files[i].category \in {"source", "entry_point", "test"}
        /\ Contains(GetText(raw_contents, "source"),
                    SourcePart(repo_files[i].path, FallbackText(repo_files[i].content)))}

\* C24: redaction runs on the complete raw content of each slot: no
\* repository text placed in a slot was shortened, by a character cap, a line
\* cap or token truncation, before sanitize_batch ran on it.
C24_RedactionSeesUncutText ==
    raw_contents # <<>> =>
        /\ \A i \in 1..Len(repo_files) :
               repo_files[i].category = "readme" =>
                   \E j \in 1..i : raw_contents["readme"] = repo_files[j].content
        /\ \A i \in HeadInSourceSlot :
               Contains(GetText(raw_contents, "source"),
                        SourcePart(repo_files[i].path,
                                   Join(SplitLines(repo_files[i].content), <<"\n">>)))
\* usable minus what the slots before slot k of the result used
RunningRemainder(k) ==
    Usable(call.total_budget) - SumUsed(SubSeq(ret[1].slots, 1, k - 1))

\* C25: allocate takes the slots in table order; the cap of slot k is
\* min(its share + the unspent part of the running remainder, the running
\* remainder), the running remainder being usable minus the used_tokens of
\* the slots before k, floored at 0; an empty slot uses nothing and a filled
\* slot uses the tokens of its content.
C25_CapIsRunningRemainder ==
    Returned("allocate") =>
        /\ Len(ret[1].slots) = Len(SLOT_PROPORTIONS)
        /\ \A k \in 1..Len(ret[1].slots) :
               LET slot      == ret[1].slots[k]
                   share     == Share(Usable(call.total_budget), SLOT_PROPORTIONS[k].pct)
                   remainder == Max(RunningRemainder(k), 0)
               IN  /\ slot.name = SLOT_PROPORTIONS[k].name
                   /\ slot.max_tokens = Min(share + (remainder - share), remainder)
                   /\ slot.used_tokens = count_tokens(slot.content)
                   /\ GetText(call.contents, slot.name) = <<>> =>
                          slot.used_tokens = 0 /\ slot.content = <<>>

\* an allocation in which a slot after a filled one got more than its share,
\* and a slot whose cap was floored at 0
C25_RolledOverAndFloored ==
    /\ Returned("allocate")
    /\ \E k \in 2..Len(ret[1].slots) :
          /\ ret[1].slots[k].max_tokens
                 > Share(Usable(call.total_budget), SLOT_PROPORTIONS[k].pct)
          /\ ret[1].slots[k].max_tokens < Usable(call.total_budget)
    /\ \E k \in 2..Len(ret[1].slots) :
          RunningRemainder(k) < 0 /\ ret[1].slots[k].max_tokens = 0
(***************************************************************************)
(* token_budget.py: _get_encoder under threads.  Each thread that calls    *)
(* count_tokens or truncate_to_budget runs _get_encoder; a step is one     *)
(* access to the global _encoder or one call, and the threads interleave   *)
(* between steps.  tiktoken.get_encoding keeps a registry behind a lock    *)
(* and hands out the one Encoding of a name on every call.                 *)
(***************************************************************************)
MaxThreads == 3

\* the Encoding that tiktoken's registry holds for _ENCODING_NAME
REGISTRY_ENCODING == "cl100k_base"

\* a thread at a line of _get_encoder, with what get_encoding returned to it
\* and what _get_encoder returned to its caller ("None": nothing yet)
Thread(line, made, got) == [line |-> line, made |-> made, got |-> got]

EncoderInit ==
    /\ call = [op |-> "_get_encoder"]
    /\ ret = <<>>
    /\ PipelineIdle
    /\ encoder = "None" /\ encodings = 0
    /\ threads = [th \in 1..MaxThreads |-> Thread("test", "None", "None")]

\* if _encoder is None:
TestEncoder(th) ==
    /\ call.op = "_get_encoder"
    /\ threads[th].line = "test"
    /\ threads' = [threads EXCEPT ![th].line =
                      IF encoder = "None" THEN "get_encoding" ELSE "return"]
    /\ UNCHANGED <<call, ret, pvars, encoder, encodings>>

\* tiktoken.get_encoding(_ENCODING_NAME) is invoked and returns
GetEncoding(th) ==
    /\ call.op = "_get_encoder"
    /\ threads[th].line = "get_encoding"
    /\ encodings' = encodings + 1
    /\ threads' = [threads EXCEPT ![th] = Thread("store", REGISTRY_ENCODING, "None")]
    /\ UNCHANGED <<call, ret, pvars, encoder>>

\* _encoder = <what get_encoding returned>
StoreEncoder(th) ==
    /\ call.op = "_get_encoder"
    /\ threads[th].line = "store"
    /\ encoder' = threads[th].made
    /\ threads' = [threads EXCEPT ![th].line = "return"]
    /\ UNCHANGED <<call, ret, pvars, encodings>>

\* return _encoder
ReturnEncoder(th) ==
    /\ call.op = "_get_encoder"
    /\ threads[th].line = "return"
    /\ threads' = [threads EXCEPT ![th] = Thread("done", threads[th].made, encoder)]
    /\ UNCHANGED <<call, ret, pvars, encoder, encodings>>

EncoderNext ==
    \/ \E th \in 1..Len(threads) : TestEncoder(th)
    \/ \E th \in 1..Len(threads) : GetEncoding(th)
    \/ \E th \in 1..Len(threads) : StoreEncoder(th)
    \/ \E th \in 1..Len(threads) : ReturnEncoder(th)

SpecEncoder == EncoderInit /\ [][EncoderNext]_vars

\* C26: the shared tokenizer is created at most once per process: under any
\* interleaving of the first calls of _get_encoder by several threads,
\* tiktoken.get_encoding is invoked once and every caller receives the same
\* encoder instance.
C26_EncoderCreatedOnce ==
    /\ encodings <= 1
    /\ \A a, b \in 1..Len(threads) :
           (threads[a].line = "done" /\ threads[b].line = "done") =>
               threads[a].got = threads[b].got /\ threads[a].got # "None"
\* C27: in multi-pass mode the second allocation does not truncate again
\* what the first one fitted: the readme, config and tree contents of the
\* first BudgetedContent are, verbatim, those of the second.
C27_Pass2KeepsFittedSlots ==
    pass2_budget # <<>> =>
        \A k \in {"readme", "config", "tree"} :
            SlotContent(get_slot(pass2_budget[1], k))
                = SlotContent(get_slot(budgeted[1], k))
\* the tokens of the texts handed to allocate, slot by slot
RawTokens(k) == count_tokens(GetText(call.contents, SLOT_PROPORTIONS[k].name))

RawTokensTotal ==
    SumUsed([k \in 1..Len(SLOT_PROPORTIONS) |-> [used_tokens |-> RawTokens(k)]])

\* C28: if the token counts of the slot texts handed to allocate sum to at
\* most usable, no slot is truncated: the content of every slot is its raw
\* text, however the text is spread over the slots.
C28_NoTruncationWithinUsable ==
    (Returned("allocate") /\ RawTokensTotal <= Usable(call.total_budget)) =>
        \A k \in 1..Len(ret[1].slots) :
            /\ ret[1].slots[k].content
                   = GetText(call.contents, SLOT_PROPORTIONS[k].name)
            /\ ret[1].slots[k].used_tokens = RawTokens(k)

\* an allocation within usable in which two slots hold more than their share
C28_OverShareKeptVerbatim ==
    /\ Returned("allocate")
    /\ RawTokensTotal <= Usable(call.total_budget)
    /\ \E j, k \in 1..Len(ret[1].slots) :
          /\ j < k
          /\ RawTokens(j) > Share(Usable(call.total_budget), SLOT_PROPORTIONS[j].pct)
          /\ RawTokens(k) > Share(Usable(call.total_budget), SLOT_PROPORTIONS[k].pct)
          /\ ret[1].slots[k].content = GetText(call.contents, SLOT_PROPORTIONS[k].name)
\* C29: a run of execute that reaches generation issues the final call
\* (SYSTEM_PROMPT) exactly once; in multi-pass mode it is issued only after
\* every secondary call has returned or failed; single-pass mode issues no
\* secondary call.
C29_OneFinalCallAfterSecondaryCalls ==
    /\ mode = "" => llm_calls = <<>>
    /\ mode # "" =>
          /\ Cardinality(FinalCalls) = (IF pc = "summarise_files" THEN 0 ELSE 1)
          /\ \A k \in FinalCalls :
                 /\ k = Len(llm_calls)
                 /\ Cardinality(SecondaryCalls) = attempted
                 /\ attempted = Len(top_sources)
          /\ pc = "summarise_files" => mode = "multi"
          /\ mode = "single" => SecondaryCalls = {}

\* a multi-pass run that returned: two secondary calls, then the final call
C29_FinalCallLast ==
    /\ mode = "multi"
    /\ pc = "returned"
    /\ Cardinality(SecondaryCalls) >= 2
    /\ FinalCalls = {Len(llm_calls)}
\* the place of a path in the selected list
SelectedPlace(path) ==
    CHOOSE i \in 1..Len(files_to_fetch) : files_to_fetch[i].node.path = path

\* the selected Readme files whose fetch returned, as places of the selected list
FetchedReadmes ==
    {i \in 1..Len(files_to_fetch) :
        files_to_fetch[i].category = "readme" /\ fetch_state[i] = "ok"}

\* C30: the list _fetch_files returns holds the fetched files in the relative
\* order of the selected list, whatever the order the downloads ended in; so
\* the text of the readme slot is that of the first fetched Readme file of
\* the selected list.
C30_FetchedInSelectedOrder ==
    Gathered =>
        /\ \A i, j \in 1..Len(repo_files) :
               i < j => SelectedPlace(repo_files[i].path) < SelectedPlace(repo_files[j].path)
        /\ raw_contents # <<>> =>
               IF FetchedReadmes = {} THEN "readme" \notin DOMAIN raw_contents
               ELSE raw_contents["readme"]
                        = ContentOf(files_to_fetch[
                              CHOOSE i \in FetchedReadmes :
                                  \A j \in FetchedReadmes : i <= j].node.path)

\* a run over two Readme files and a source file in which the first Readme
\* failed: the readme slot holds the second
C30_SecondReadmeTaken ==
    /\ Gathered
    /\ Len(files_to_fetch) = 3
    /\ fetch_state = <<"failed", "ok", "ok">>
    /\ files_to_fetch[2].category = "readme"
    /\ Len(repo_files) = 2
    /\ raw_contents["readme"] = LONG_README
====
